---- MODULE Spec2Model ----
(***************************************************************************)
(* A model of chyp's rewriting core: the double-pushout rewriter           *)
(* (chyp/rewrite.py) and the proof state that threads it through a proof   *)
(* (chyp/proofstate.py).  The hypergraph store (chyp/graph.py), the rule   *)
(* type (chyp/rule.py) and the occurrence finder (chyp/matcher.py) are the *)
(* collaborators the rewriter consumes; they are modelled from their       *)
(* contract.                                                               *)
(***************************************************************************)
EXTENDS Integers, Sequences, FiniteSets, TLC

\* ------------------------------------------------------------------ bounds
\* Largest number of vertices of an enumerated target graph.
MaxVertices == 3
\* Largest number of hyperedges of an enumerated target graph.
MaxEdges == 2

\* A sequence of rewrites is started only on a graph whose next fresh vertex
\* and edge identifiers are below this.
MaxFresh == 3

\* replace_lhs and replace_rhs push a goal only onto fewer goals than this.
MaxGoals == 3

\* The text of the editor is changed at most this many times.
MaxChanges == 4

\* Beside a snapshot replace_lhs is called only on fewer goals than this.
SnapshotGoals == 2

\* ------------------------------------------------------------ small helpers
Range(f) == {f[x] : x \in DOMAIN f}

Min(S) == CHOOSE x \in S : \A y \in S : x <= y

RECURSIVE SortedSeq(_)
SortedSeq(S) ==
    IF S = {} THEN <<>>
    ELSE LET x == Min(S) IN <<x>> \o SortedSeq(S \ {x})

MapSeq(q, f) == [i \in DOMAIN q |-> IF q[i] \in DOMAIN f THEN f[q[i]] ELSE -1]

FilterOut(q, v) == SelectSeq(q, LAMBDA x : x # v)

Subst(q, w, v) == [i \in DOMAIN q |-> IF q[i] = w THEN v ELSE q[i]]

Restrict(f, S) == [x \in S |-> f[x]]

Extend(f, k, val) == [x \in DOMAIN f \cup {k} |-> IF x = k THEN val ELSE f[x]]

EmptyMap == [x \in {} |-> 0]

\* ------------------------------------------------- hypergraph store (Graph)
\* A hypergraph value: the vertex names, the hyperedges with their ordered
\* source and target sequences and their label, the ordered input and output
\* boundary, and the counters that name fresh vertices and edges.
mkGraph(n, es, ins, outs) ==
    [vdata   |-> 0 .. (n - 1),
     edata   |-> [e \in 0 .. (Len(es) - 1) |-> es[e + 1]],
     inputs  |-> ins,
     outputs |-> outs,
     vindex  |-> n,
     eindex  |-> Len(es)]

Edge(s, t, value) == [s |-> s, t |-> t, value |-> value]

vertices(g) == g.vdata

edges(g) == DOMAIN g.edata

num_vertices(g) == Cardinality(g.vdata)

num_edges(g) == Cardinality(DOMAIN g.edata)

in_edges(g, v) == {e \in edges(g) : \E j \in DOMAIN g.edata[e].t : g.edata[e].t[j] = v}

out_edges(g, v) == {e \in edges(g) : \E j \in DOMAIN g.edata[e].s : g.edata[e].s[j] = v}

\* The positions at which v is an input (output) port of g.
in_indices(g, v) == {i \in DOMAIN g.inputs : g.inputs[i] = v}

out_indices(g, v) == {i \in DOMAIN g.outputs : g.outputs[i] = v}

is_boundary(g, v) == in_indices(g, v) # {} \/ out_indices(g, v) # {}

remove_edge(g, e) == [g EXCEPT !.edata = Restrict(g.edata, DOMAIN g.edata \ {e})]

\* Removes v, dropping it from the source/target sequence of every adjacent
\* edge and from the boundary.
remove_vertex(g, v) ==
    [g EXCEPT !.vdata   = g.vdata \ {v},
              !.edata   = [e \in DOMAIN g.edata |->
                              [g.edata[e] EXCEPT !.s = FilterOut(g.edata[e].s, v),
                                                 !.t = FilterOut(g.edata[e].t, v)]],
              !.inputs  = FilterOut(g.inputs, v),
              !.outputs = FilterOut(g.outputs, v)]

add_vertex(g) == [g EXCEPT !.vdata = g.vdata \cup {g.vindex}, !.vindex = g.vindex + 1]

add_edge(g, s, t, value) ==
    [g EXCEPT !.edata = Extend(g.edata, g.eindex, Edge(s, t, value)),
              !.eindex = g.eindex + 1]

\* Identifies w with v; the merged vertex keeps the name v.
merge_vertices(g, v, w) ==
    LET g1 == [g EXCEPT !.edata   = [e \in DOMAIN g.edata |->
                                        [g.edata[e] EXCEPT !.s = Subst(g.edata[e].s, w, v),
                                                           !.t = Subst(g.edata[e].t, w, v)]],
                        !.inputs  = Subst(g.inputs, w, v),
                        !.outputs = Subst(g.outputs, w, v)]
    IN  remove_vertex(g1, w)

\* The wire-ends arriving at v: its input-port positions, then its positions
\* in edge target sequences; each is keyed by a number that orders them.
SlotKey(kind, e, j) == IF kind = 0 THEN j ELSE 100 + 10 * e + j

InSlots(g, v) ==
    {SlotKey(0, 0, i) : i \in in_indices(g, v)} \cup
    {SlotKey(1, p[1], p[2]) :
        p \in {q \in edges(g) \X (1 .. 9) :
                  q[2] \in DOMAIN g.edata[q[1]].t /\ g.edata[q[1]].t[q[2]] = v}}

OutSlots(g, v) ==
    {SlotKey(0, 0, i) : i \in out_indices(g, v)} \cup
    {SlotKey(1, p[1], p[2]) :
        p \in {q \in edges(g) \X (1 .. 9) :
                  q[2] \in DOMAIN g.edata[q[1]].s /\ g.edata[q[1]].s[q[2]] = v}}

Rank(S, k) == Cardinality({x \in S : x < k})

\* Splits v into one fresh vertex per arriving wire-end and one fresh vertex
\* per leaving wire-end, and removes v.  Returns the new graph and the two
\* lists of fresh vertices.
explode_vertex(g, v) ==
    LET ins   == InSlots(g, v)
        outs  == OutSlots(g, v)
        nin   == Cardinality(ins)
        nout  == Cardinality(outs)
        fin(k)  == g.vindex + Rank(ins, k)
        fout(k) == g.vindex + nin + Rank(outs, k)
        g1 == [g EXCEPT
                 !.vdata   = (g.vdata \ {v}) \cup (g.vindex .. (g.vindex + nin + nout - 1)),
                 !.vindex  = g.vindex + nin + nout,
                 !.inputs  = [i \in DOMAIN g.inputs |->
                                 IF g.inputs[i] = v THEN fin(SlotKey(0, 0, i)) ELSE g.inputs[i]],
                 !.outputs = [i \in DOMAIN g.outputs |->
                                 IF g.outputs[i] = v THEN fout(SlotKey(0, 0, i)) ELSE g.outputs[i]],
                 !.edata   = [e \in DOMAIN g.edata |->
                                 [g.edata[e] EXCEPT
                                    !.t = [j \in DOMAIN g.edata[e].t |->
                                             IF g.edata[e].t[j] = v
                                             THEN fin(SlotKey(1, e, j)) ELSE g.edata[e].t[j]],
                                    !.s = [j \in DOMAIN g.edata[e].s |->
                                             IF g.edata[e].s[j] = v
                                             THEN fout(SlotKey(1, e, j)) ELSE g.edata[e].s[j]]]]]
    IN  [g |-> g1,
         input_vertices  |-> [k \in 1 .. nin  |-> g.vindex + k - 1],
         output_vertices |-> [k \in 1 .. nout |-> g.vindex + nin + k - 1]]

\* True when every wire-end and every port of g names a vertex of g.
NoDangling(g) ==
    /\ \A e \in edges(g) : Range(g.edata[e].s) \cup Range(g.edata[e].t) \subseteq g.vdata
    /\ Range(g.inputs) \cup Range(g.outputs) \subseteq g.vdata

\* ------------------------------------------------------------------- Rule
\* str(e) of the RuleError that the constructor of Rule raises.
MsgRuleError == <<"Inputs and outputs must match on LHS and RHS of rule">>

\* Rule(lhs, rhs): the constructor raises RuleError unless the two graphs have
\* as many inputs and as many outputs as each other.
Rule(lhs, rhs) ==
    IF Len(lhs.inputs) = Len(rhs.inputs) /\ Len(lhs.outputs) = Len(rhs.outputs)
    THEN [status |-> "ok", rule |-> [lhs |-> lhs, rhs |-> rhs]]
    ELSE [status |-> "RuleError", message |-> MsgRuleError]

mkRule(lhs, rhs) == [lhs |-> lhs, rhs |-> rhs]

\* The lhs/rhs-swapped inverse of a rule.
converse(r) == [lhs |-> r.rhs, rhs |-> r.lhs]

\* A boundary vertex of g that occupies more than one input position or more
\* than one output position ("Frobenius" boundary).
HasFrobeniusBoundary(g) ==
    \E v \in vertices(g) :
        Cardinality(in_indices(g, v)) > 1 \/ Cardinality(out_indices(g, v)) > 1

\* ------------------------------------------- occurrence finder (Match, Matches)
IsInjective(f) == \A x, y \in DOMAIN f : f[x] = f[y] => x = y

\* A structure-preserving embedding of pattern p into target g: vertices and
\* edges are mapped injectively, labels and the source/target sequences are
\* preserved, and an interior vertex of p is sent to an interior vertex of g
\* all of whose wire-ends belong to images of edges of p.
IsMatch(p, g, vm, em) ==
    /\ IsInjective(vm)
    /\ IsInjective(em)
    /\ \A e \in edges(p) :
          /\ p.edata[e].value = g.edata[em[e]].value
          /\ MapSeq(p.edata[e].s, vm) = g.edata[em[e]].s
          /\ MapSeq(p.edata[e].t, vm) = g.edata[em[e]].t
    /\ \A v \in vertices(p) :
          ~ is_boundary(p, v) =>
              /\ ~ is_boundary(g, vm[v])
              /\ in_edges(g, vm[v])  \subseteq Range(em)
              /\ out_edges(g, vm[v]) \subseteq Range(em)

\* Every occurrence of pattern p in target g.  The codomain of each is the
\* graph object the finder was given, named by the reference cod.
Matches(p, g) ==
    {[vertex_map |-> q[1], edge_map |-> q[2], codomain |-> "cod"] :
        q \in {c \in [vertices(p) -> vertices(g)] \X [edges(p) -> edges(g)] :
                 IsMatch(p, g, c[1], c[2])}}

\* An isomorphism of graphs: a bijection of vertices and of edges preserving
\* labels, source/target sequences and the order of the ports.
isomorphic(a, b) ==
    /\ num_vertices(a) = num_vertices(b)
    /\ num_edges(a) = num_edges(b)
    /\ Len(a.inputs) = Len(b.inputs)
    /\ Len(a.outputs) = Len(b.outputs)
    /\ \E vm \in [vertices(a) -> vertices(b)] :
          /\ IsInjective(vm)
          /\ MapSeq(a.inputs, vm) = b.inputs
          /\ MapSeq(a.outputs, vm) = b.outputs
          /\ \E em \in [edges(a) -> edges(b)] :
                /\ IsInjective(em)
                /\ \A e \in edges(a) :
                      /\ a.edata[e].value = b.edata[em[e]].value
                      /\ MapSeq(a.edata[e].s, vm) = b.edata[em[e]].s
                      /\ MapSeq(a.edata[e].t, vm) = b.edata[em[e]].t

\* ------------------------------------------------------- dpo (rewrite.py)
\* Graph objects live in a heap, reference -> value: "cod" is the graph the
\* occurrence points at, "ctx" the context graph the rewriter builds.
graph_copy(heap, ref) == [heap |-> Extend(heap, "ctx", heap[ref]), ref |-> "ctx"]

Update(heap, ref, g) == [heap EXCEPT ![ref] = g]

RECURSIVE remove_vertices(_, _)
remove_vertices(g, vs) ==
    IF vs = <<>> THEN g ELSE remove_vertices(remove_vertex(g, Head(vs)), Tail(vs))

\* Lines 44-62 had every lhs vertex been treated as interior: the image of
\* each one is removed from the context, none is split.
complement_vertices_all_interior(rule, match, heap, ref, vs, in_map, out_map) ==
    [raised |-> FALSE,
     heap |-> Update(heap, ref,
                     remove_vertices(heap[ref], [i \in DOMAIN vs |-> match.vertex_map[vs[i]]])),
     in_map |-> in_map, out_map |-> out_map]

\* Lines 44-62 had every boundary vertex without exactly one input and one
\* output position raised, and the others been split.
RECURSIVE complement_vertices_strict(_, _, _, _, _, _, _)
complement_vertices_strict(rule, match, heap, ref, vs, in_map, out_map) ==
    IF vs = <<>>
    THEN [raised |-> FALSE, heap |-> heap, in_map |-> in_map, out_map |-> out_map]
    ELSE
      LET v  == Head(vs)
          v1 == match.vertex_map[v]
          in_count  == Cardinality(in_indices(rule.lhs, v))
          out_count == Cardinality(out_indices(rule.lhs, v))
      IN
        IF ~ is_boundary(rule.lhs, v)
        THEN complement_vertices_strict(rule, match,
                                        Update(heap, ref, remove_vertex(heap[ref], v1)),
                                        ref, Tail(vs), in_map, out_map)
        ELSE IF in_count = 1 /\ out_count = 1
        THEN LET x == explode_vertex(heap[ref], v1)
                 heap1 == Update(heap, ref, x.g)
             IN  IF Len(x.input_vertices) = 1 /\ Len(x.output_vertices) = 1
                 THEN complement_vertices_strict(rule, match, heap1, ref, Tail(vs),
                                                 Extend(in_map, v, x.input_vertices[1]),
                                                 Extend(out_map, v, x.output_vertices[1]))
                 ELSE [raised |-> TRUE, heap |-> heap1,
                       in_map |-> in_map, out_map |-> out_map]
        ELSE [raised |-> TRUE, heap |-> heap, in_map |-> in_map, out_map |-> out_map]

\* Lines 44-62: one lhs vertex after the other; an interior vertex is removed
\* from the context, a boundary vertex with exactly one input and one output
\* position is exploded, one with more than one of either raises.
RECURSIVE complement_vertices(_, _, _, _, _, _, _)
complement_vertices(rule, match, heap, ref, vs, in_map, out_map) ==
    IF vs = <<>>
    THEN [raised |-> FALSE, heap |-> heap, in_map |-> in_map, out_map |-> out_map]
    ELSE
      LET v  == Head(vs)
          v1 == match.vertex_map[v]
          in_count  == Cardinality(in_indices(rule.lhs, v))
          out_count == Cardinality(out_indices(rule.lhs, v))
      IN
        IF ~ is_boundary(rule.lhs, v)
        THEN complement_vertices(rule, match, Update(heap, ref, remove_vertex(heap[ref], v1)),
                                 ref, Tail(vs), in_map, out_map)
        ELSE IF in_count = 1 /\ out_count = 1
        THEN LET x == explode_vertex(heap[ref], v1)
                 heap1 == Update(heap, ref, x.g)
             IN  IF Len(x.input_vertices) = 1 /\ Len(x.output_vertices) = 1
                 THEN complement_vertices(rule, match, heap1, ref, Tail(vs),
                                          Extend(in_map, v, x.input_vertices[1]),
                                          Extend(out_map, v, x.output_vertices[1]))
                 ELSE [raised |-> TRUE, heap |-> heap1,
                       in_map |-> in_map, out_map |-> out_map]
        ELSE IF in_count > 1 \/ out_count > 1
        THEN [raised |-> TRUE, heap |-> heap, in_map |-> in_map, out_map |-> out_map]
        ELSE complement_vertices(rule, match, heap, ref, Tail(vs), in_map, out_map)

RECURSIVE remove_edges(_, _)
remove_edges(g, es) ==
    IF es = <<>> THEN g ELSE remove_edges(remove_edge(g, Head(es)), Tail(es))

\* Lines 40-63 on the context graph named by ref.
complement_on(rule, match, heap, ref) ==
    LET imgs  == [i \in DOMAIN SortedSeq(edges(rule.lhs)) |->
                     match.edge_map[SortedSeq(edges(rule.lhs))[i]]]
        heap1 == Update(heap, ref, remove_edges(heap[ref], imgs))
        r     == complement_vertices(rule, match, heap1, ref,
                                     SortedSeq(vertices(rule.lhs)), EmptyMap, EmptyMap)
    IN  [raised |-> r.raised, heap |-> r.heap, ctx |-> ref,
         in_map |-> r.in_map, out_map |-> r.out_map]

\* The pushout complement built in the occurrence's own graph, without the copy.
pushout_complement_inplace(rule, match, heap) ==
    complement_on(rule, match, Extend(heap, "ctx", heap[match.codomain]), match.codomain)

\* Lines 38-63: ctx = match.codomain.copy(), then the removals and splits.
pushout_complement(rule, match, heap) ==
    LET c == graph_copy(heap, match.codomain)
    IN  complement_on(rule, match, c.heap, c.ref)

\* Lines 72-73 had the inbound halves been ignored: every rhs input is sent to
\* the image of the lhs input itself.
RECURSIVE map_inputs_unsplit(_, _, _, _, _)
map_inputs_unsplit(rule, match, in_map, i, vmap) ==
    IF i > Len(rule.lhs.inputs) \/ i > Len(rule.rhs.inputs)
    THEN vmap
    ELSE map_inputs_unsplit(rule, match, in_map, i + 1,
                            Extend(vmap, rule.rhs.inputs[i],
                                   match.vertex_map[rule.lhs.inputs[i]]))

\* Lines 72-73: the i-th rhs input is sent where the i-th lhs input went (to
\* its inbound half when it was split); a later position overwrites an earlier.
RECURSIVE map_inputs(_, _, _, _, _)
map_inputs(rule, match, in_map, i, vmap) ==
    IF i > Len(rule.lhs.inputs) \/ i > Len(rule.rhs.inputs)
    THEN vmap
    ELSE LET vl == rule.lhs.inputs[i]
             vr == rule.rhs.inputs[i]
             img == IF vl \in DOMAIN in_map THEN in_map[vl] ELSE match.vertex_map[vl]
         IN  map_inputs(rule, match, in_map, i + 1, Extend(vmap, vr, img))

\* Lines 77-82 had the outbound halves been ignored: every rhs output is sent
\* to the image of the lhs output itself.
RECURSIVE map_outputs_unsplit(_, _, _, _, _, _)
map_outputs_unsplit(rule, match, out_map, i, vmap, h) ==
    IF i > Len(rule.lhs.outputs) \/ i > Len(rule.rhs.outputs)
    THEN [vertex_map |-> vmap, h |-> h]
    ELSE LET vr  == rule.rhs.outputs[i]
             vr1 == match.vertex_map[rule.lhs.outputs[i]]
         IN  IF vr \in DOMAIN vmap
             THEN map_outputs_unsplit(rule, match, out_map, i + 1, vmap,
                                      merge_vertices(h, vmap[vr], vr1))
             ELSE map_outputs_unsplit(rule, match, out_map, i + 1, Extend(vmap, vr, vr1), h)

\* Lines 77-82 without the merge: an rhs vertex that already has an image
\* keeps it and the context is left alone.
RECURSIVE map_outputs_nomerge(_, _, _, _, _, _)
map_outputs_nomerge(rule, match, out_map, i, vmap, h) ==
    IF i > Len(rule.lhs.outputs) \/ i > Len(rule.rhs.outputs)
    THEN [vertex_map |-> vmap, h |-> h]
    ELSE LET vl  == rule.lhs.outputs[i]
             vr  == rule.rhs.outputs[i]
             vr1 == IF vl \in DOMAIN out_map THEN out_map[vl] ELSE match.vertex_map[vl]
         IN  IF vr \in DOMAIN vmap
             THEN map_outputs_nomerge(rule, match, out_map, i + 1, vmap, h)
             ELSE map_outputs_nomerge(rule, match, out_map, i + 1, Extend(vmap, vr, vr1), h)

\* Lines 77-82: the i-th rhs output is sent where the i-th lhs output went (to
\* its outbound half when it was split); an rhs vertex that already has an
\* image keeps it and the two images are merged in h.
RECURSIVE map_outputs(_, _, _, _, _, _)
map_outputs(rule, match, out_map, i, vmap, h) ==
    IF i > Len(rule.lhs.outputs) \/ i > Len(rule.rhs.outputs)
    THEN [vertex_map |-> vmap, h |-> h]
    ELSE LET vl  == rule.lhs.outputs[i]
             vr  == rule.rhs.outputs[i]
             vr1 == IF vl \in DOMAIN out_map THEN out_map[vl] ELSE match.vertex_map[vl]
         IN  IF vr \in DOMAIN vmap
             THEN map_outputs(rule, match, out_map, i + 1, vmap,
                              merge_vertices(h, vmap[vr], vr1))
             ELSE map_outputs(rule, match, out_map, i + 1, Extend(vmap, vr, vr1), h)

\* Lines 77-82: the calls h.merge_vertices(result.vertex_map[vr], vr1) that
\* line 80 makes, in order, each as the pair of its arguments.
RECURSIVE merge_calls(_, _, _, _, _)
merge_calls(rule, match, out_map, i, vmap) ==
    IF i > Len(rule.lhs.outputs) \/ i > Len(rule.rhs.outputs)
    THEN <<>>
    ELSE LET vl  == rule.lhs.outputs[i]
             vr  == rule.rhs.outputs[i]
             vr1 == IF vl \in DOMAIN out_map THEN out_map[vl] ELSE match.vertex_map[vl]
         IN  IF vr \in DOMAIN vmap
             THEN <<<<vmap[vr], vr1>>>> \o merge_calls(rule, match, out_map, i + 1, vmap)
             ELSE merge_calls(rule, match, out_map, i + 1, Extend(vmap, vr, vr1))

\* Lines 85-92: every interior rhs vertex gets a fresh vertex of h.
RECURSIVE map_interior(_, _, _, _, _)
map_interior(rule, vs, vmap, vimage, h) ==
    IF vs = <<>>
    THEN [vertex_map |-> vmap, vertex_image |-> vimage, h |-> h]
    ELSE LET v == Head(vs)
         IN  IF ~ is_boundary(rule.rhs, v)
             THEN map_interior(rule, Tail(vs), Extend(vmap, v, h.vindex),
                               vimage \cup {h.vindex}, add_vertex(h))
             ELSE map_interior(rule, Tail(vs), vmap, vimage, h)

\* Lines 95-101: every rhs edge is added to h, its ends translated by the
\* vertex map built so far.
RECURSIVE map_edges(_, _, _, _, _, _)
map_edges(rule, es, vmap, emap, eimage, h) ==
    IF es = <<>>
    THEN [edge_map |-> emap, edge_image |-> eimage, h |-> h]
    ELSE LET e  == Head(es)
             ed == rule.rhs.edata[e]
         IN  map_edges(rule, Tail(es), vmap, Extend(emap, e, h.eindex),
                       eimage \cup {h.eindex},
                       add_edge(h, MapSeq(ed.s, vmap), MapSeq(ed.t, vmap), ed.value))

NoResult == [vertex_map |-> EmptyMap, edge_map |-> EmptyMap, codomain |-> "none",
             vertex_image |-> {}, edge_image |-> {}]

\* Lines 65-103 after the pushout complement pc.
embed_rhs(rule, match, pc) ==
    LET vm1 == map_inputs(rule, match, pc.in_map, 1, EmptyMap)
        o   == map_outputs(rule, match, pc.out_map, 1, vm1, pc.heap[pc.ctx])
        n   == map_interior(rule, SortedSeq(vertices(rule.rhs)), o.vertex_map, {}, o.h)
        unmapped == \E e \in edges(rule.rhs) :
                       ~ (Range(rule.rhs.edata[e].s) \cup Range(rule.rhs.edata[e].t)
                             \subseteq DOMAIN n.vertex_map)
        d   == map_edges(rule, SortedSeq(edges(rule.rhs)), n.vertex_map, EmptyMap, {}, n.h)
    IN  IF unmapped
        THEN [status |-> "KeyError", heap |-> Update(pc.heap, pc.ctx, n.h), result |-> NoResult,
              in_map |-> pc.in_map, out_map |-> pc.out_map,
              merges |-> merge_calls(rule, match, pc.out_map, 1, vm1)]
        ELSE [status |-> "ok",
              heap   |-> Update(pc.heap, pc.ctx, d.h),
              in_map |-> pc.in_map, out_map |-> pc.out_map,
              merges |-> merge_calls(rule, match, pc.out_map, 1, vm1),
              result |-> [vertex_map |-> n.vertex_map, edge_map |-> d.edge_map,
                          codomain |-> pc.ctx,
                          vertex_image |-> n.vertex_image, edge_image |-> d.edge_image]]

\* dpo(rule, match) on a heap holding the occurrence's graph: the status
\* ("ok", or the exception raised), the heap afterwards, the occurrence of
\* rule.rhs in the rewritten graph, and the two dictionaries of split vertices.
dpo(rule, match, heap) ==
    LET pc == pushout_complement(rule, match, heap)
    IN  IF pc.raised
        THEN [status |-> "NotImplementedError", heap |-> pc.heap, result |-> NoResult,
              in_map |-> pc.in_map, out_map |-> pc.out_map, merges |-> <<>>]
        ELSE embed_rhs(rule, match, pc)

\* dpo applied to an occurrence m of rule.lhs in the graph value G.
Rewrite(rule, m, G) == dpo(rule, m, [r \in {"cod"} |-> G])

\* ------------------------------------------------------------ rule catalogue
\* The generators are f, g : 1 -> 1 and m : 2 -> 1.
Wire == mkGraph(1, <<>>, <<0>>, <<0>>)

BoxF == mkGraph(2, <<Edge(<<0>>, <<1>>, "f")>>, <<0>>, <<1>>)

BoxG == mkGraph(2, <<Edge(<<0>>, <<1>>, "g")>>, <<0>>, <<1>>)

BoxFF == mkGraph(3, <<Edge(<<0>>, <<1>>, "f"), Edge(<<1>>, <<2>>, "f")>>, <<0>>, <<2>>)

BoxM == mkGraph(3, <<Edge(<<0, 1>>, <<2>>, "m")>>, <<0, 1>>, <<2>>)

BoxMSwapped == mkGraph(3, <<Edge(<<1, 0>>, <<2>>, "m")>>, <<0, 1>>, <<2>>)

\* One vertex that is input 1 and input 2: a Frobenius boundary.
BoxMCopy == mkGraph(2, <<Edge(<<0, 0>>, <<1>>, "m")>>, <<0, 0>>, <<1>>)

\* comm: m with its inputs swapped.  relabel: f = g.  intro: a bare wire = f.
\* fuse: f ; f = f.  copy: a rule whose lhs has a Frobenius boundary.
RuleTable ==
    [comm    |-> mkRule(BoxM, BoxMSwapped),
     relabel |-> mkRule(BoxF, BoxG),
     intro   |-> mkRule(Wire, BoxF),
     fuse    |-> mkRule(BoxFF, BoxF),
     copy    |-> mkRule(BoxMCopy, BoxM)]

RuleNames == DOMAIN RuleTable

\* The rules a rewrite is tried with: the catalogue and the converses.
Rules == {RuleTable[n] : n \in RuleNames} \cup {converse(RuleTable[n]) : n \in RuleNames}

\* ------------------------------------------------------------ target graphs
\* The edges a target graph on vertices 0..n-1 may have: f from a vertex to a
\* later one, m from two vertices to a later one (the graphs are acyclic; fan-in
\* and fan-out of wires are allowed).
EdgeShapes(n) ==
    {Edge(<<a>>, <<b>>, "f") : a \in 0 .. (n - 1), b \in 0 .. (n - 1)} \cup
    {Edge(<<p[1], p[2]>>, <<p[3]>>, "m") :
        p \in (0 .. (n - 1)) \X (0 .. (n - 1)) \X (0 .. (n - 1))}

ForwardEdge(ed) == \A j \in DOMAIN ed.s : ed.s[j] < ed.t[1]

EdgeCode(ed) ==
    IF ed.value = "f" THEN 10 * ed.s[1] + ed.t[1]
    ELSE 1000 + 100 * ed.s[1] + 10 * ed.s[2] + ed.t[1]

EdgeLists(n) ==
    UNION {{es \in [1 .. k -> {ed \in EdgeShapes(n) : ForwardEdge(ed)}] :
               \A i \in 1 .. (k - 1) : EdgeCode(es[i]) < EdgeCode(es[i + 1])} :
           k \in 0 .. MaxEdges}

\* A target graph: its inputs are the vertices no edge arrives at, its outputs
\* the vertices no edge leaves, both in ascending order.
Close(g) ==
    [g EXCEPT !.inputs  = SortedSeq({v \in vertices(g) : in_edges(g, v) = {}}),
              !.outputs = SortedSeq({v \in vertices(g) : out_edges(g, v) = {}})]

TargetGraphs ==
    UNION {{Close(mkGraph(n, es, <<>>, <<>>)) : es \in EdgeLists(n)} : n \in 1 .. MaxVertices}

\* Target graphs on at most two vertices whose f edges may run backwards or
\* from a vertex to itself.
CyclicGraphs ==
    UNION {{Close(mkGraph(n, es, <<>>, <<>>)) :
               es \in UNION {{fs \in [1 .. k -> {ed \in EdgeShapes(n) : ed.value = "f"}] :
                                 \A i \in 1 .. (k - 1) : EdgeCode(fs[i]) < EdgeCode(fs[i + 1])} :
                             k \in 1 .. MaxEdges}} :
           n \in 1 .. 2}

\* An occurrence that may send several boundary vertices of the pattern to one
\* vertex of the target: edges and interior vertices are mapped injectively.
IsFolding(p, g, vm, em) ==
    /\ IsInjective(em)
    /\ \A x, y \in DOMAIN vm :
          vm[x] = vm[y] => x = y \/ (is_boundary(p, x) /\ is_boundary(p, y))
    /\ \A e \in edges(p) :
          /\ p.edata[e].value = g.edata[em[e]].value
          /\ MapSeq(p.edata[e].s, vm) = g.edata[em[e]].s
          /\ MapSeq(p.edata[e].t, vm) = g.edata[em[e]].t
    /\ \A v \in vertices(p) :
          ~ is_boundary(p, v) =>
              /\ ~ is_boundary(g, vm[v])
              /\ in_edges(g, vm[v])  \subseteq Range(em)
              /\ out_edges(g, vm[v]) \subseteq Range(em)

Foldings(p, g) ==
    {[vertex_map |-> q[1], edge_map |-> q[2], codomain |-> "cod"] :
        q \in {c \in [vertices(p) -> vertices(g)] \X [edges(p) -> edges(g)] :
                 IsFolding(p, g, c[1], c[2])}}

\* ------------------------------------------------------------------ state
VARIABLES
    run,                  \* one call of dpo and what follows it
    rule_store,           \* the Rule objects: reference -> [lhs, rhs]
    state_rules,          \* State.rules: name -> reference
    state_rule_sequence,  \* State.rule_sequence: name -> position
    state_errors,         \* State.errors: (file name, line, message) triples
    goals,                \* ProofState.goals
    context,              \* ProofState.context: name -> reference
    errors,               \* ProofState.errors: the messages already reported
    line,                 \* ProofState.line
    sequence,             \* ProofState.sequence
    gen,                  \* the generator returned by rewrite_lhs / rewrite_rhs
    lk,                   \* the last call of lookup_rule: its locals and result
    other,                \* the ProofState not operated on: a snapshot, or the one it was taken of
    call,                 \* the last call of replace_lhs, replace_rhs or try_close_goal
    editor                \* the Editor: its revision, parsed flag and single-shot timers

vars == <<run, editor, rule_store, state_rules, state_rule_sequence, state_errors,
          goals, context, errors, line, sequence, gen, lk, other, call>>

proof_vars == <<editor, rule_store, state_rules, state_rule_sequence, state_errors,
                goals, context, errors, line, sequence, gen, lk, other, call>>

NoGen == [pc |-> "none"]

NoLookup == [pc |-> "none"]

NoRun == [pc |-> "none"]

NoOther == [pc |-> "none"]

NoCall == [op |-> "none"]

\* The Editor as its constructor leaves it: parsed, revision 0, no timer set.
\* The document's text is the number of changes made to it, and code is the
\* text that update_state read last.
NoEditor == [parsed |-> TRUE, revision |-> 0, code |-> 0, text |-> 0, timers |-> <<>>]

\* ---------------------------------------------------- dpo, one call at a time
\* The occurrence of rule.rhs that dpo returned, as the argument of a further
\* call: its codomain is then the graph object that call works on.
AsMatch(result) ==
    [vertex_map |-> result.vertex_map, edge_map |-> result.edge_map, codomain |-> "cod"]

\* What a call of dpo leaves behind: its status, the occurrence's graph G as it
\* is after the call, the rewritten graph H and the occurrence returned.
Outcome(d, m) ==
    [status |-> d.status,
     G      |-> d.heap[m.codomain],
     H      |-> IF d.status = "ok" THEN d.heap[d.result.codomain] ELSE d.heap[m.codomain],
     result |-> d.result,
     in_map |-> d.in_map,
     out_map |-> d.out_map,
     merges |-> d.merges]

InitDpo ==
    /\ \E r \in Rules, G \in TargetGraphs :
          \E m \in Matches(r.lhs, G) :
              run = [pc |-> "start", rule |-> r, G |-> G, match |-> m]
    /\ rule_store = EmptyMap
    /\ state_rules = EmptyMap
    /\ state_rule_sequence = EmptyMap
    /\ state_errors = <<>>
    /\ goals = <<>>
    /\ context = EmptyMap
    /\ errors = {}
    /\ line = -1
    /\ sequence = 0
    /\ gen = NoGen
    /\ lk = NoLookup
    /\ other = NoOther
    /\ call = NoCall
    /\ editor = NoEditor

\* dpo(rule, match).
DpoApply ==
    /\ run.pc = "start"
    /\ run' = [pc |-> "applied", rule |-> run.rule, G |-> run.G, match |-> run.match,
               out |-> Outcome(Rewrite(run.rule, run.match, run.G), run.match)]
    /\ UNCHANGED proof_vars

\* dpo(converse of rule, the occurrence the first call returned).
DpoBack ==
    /\ run.pc = "applied"
    /\ run.out.status = "ok"
    /\ run' = [pc |-> "back", rule |-> run.rule, G |-> run.G, match |-> run.match,
               out |-> run.out,
               out2 |-> Outcome(Rewrite(converse(run.rule), AsMatch(run.out.result), run.out.H),
                                AsMatch(run.out.result))]
    /\ UNCHANGED proof_vars

\* dpo(rule, m2) for an occurrence m2 of rule.lhs in the rewritten graph that
\* covers the edges the first call put there.
DpoAgain ==
    /\ run.pc = "applied"
    /\ run.out.status = "ok"
    /\ \E m2 \in Matches(run.rule.lhs, run.out.H) :
          /\ Range(m2.edge_map) = Range(run.out.result.edge_map)
          /\ run' = [pc |-> "again", rule |-> run.rule, G |-> run.G, match |-> run.match,
                     out |-> run.out,
                     out2 |-> Outcome(Rewrite(run.rule, m2, run.out.H), m2)]
    /\ UNCHANGED proof_vars

NextDpo == DpoApply \/ DpoBack \/ DpoAgain

SpecDpo == InitDpo /\ [][NextDpo]_vars

\* dpo is handed an occurrence that may fold boundary vertices together, in a
\* target that may have cycles.
InitFolded ==
    /\ \E r \in Rules, G \in TargetGraphs \cup CyclicGraphs :
          \E m \in Foldings(r.lhs, G) :
              run = [pc |-> "start", rule |-> r, G |-> G, match |-> m]
    /\ rule_store = EmptyMap
    /\ state_rules = EmptyMap
    /\ state_rule_sequence = EmptyMap
    /\ state_errors = <<>>
    /\ goals = <<>>
    /\ context = EmptyMap
    /\ errors = {}
    /\ line = -1
    /\ sequence = 0
    /\ gen = NoGen
    /\ lk = NoLookup
    /\ other = NoOther
    /\ call = NoCall
    /\ editor = NoEditor

NextFolded == DpoApply

SpecFolded == InitFolded /\ [][NextFolded]_vars

\* ------------------------------------------------ ProofState (proofstate.py)
FileName == "doc.chyp"

\* f'Rule {rule_name} not defined.'
MsgNotDefined(rule_name) == <<"Rule ", rule_name, " not defined.">>

\* f'Attempting to use rule {rule_name} before it is defined/proven ({seq} >= {self.sequence}).'
MsgBeforeDefined(rule_name, seq, own) ==
    <<"Attempting to use rule ", rule_name, " before it is defined/proven (",
      ToString(seq), " >= ", ToString(own), ").">>

NoMessage == <<>>

None == 0

\* A fresh reference for a new Rule object.
NewRef(store) == Min({r \in 1 .. (Cardinality(DOMAIN store) + 1) : r \notin DOMAIN store})

\* Rule.copy(): a new Rule object holding copies of both graphs.
rule_copy(store, ref) == [store |-> Extend(store, NewRef(store), store[ref]),
                          ref   |-> NewRef(store)]

\* lookup_rule had it returned the rule it found, not a copy of it.
returned_uncopied(store, ref) == [store |-> store, ref |-> ref]

\* return rule.copy(), the last line of lookup_rule.
returned_copy(store, ref) == rule_copy(store, ref)

\* The Rule objects a ProofState o that is not operated on refers to.
OtherRefs(o) ==
    IF o.pc = "none" THEN {}
    ELSE Range(o.context) \cup {o.goals[i].formula : i \in DOMAIN o.goals}
         \cup UNION {Range(o.goals[i].assumptions) : i \in DOMAIN o.goals}

\* The Rule objects the theory, the ProofState operated on and the caller
\* refer to.
Held(sr, gs, cx, l) ==
    Range(sr) \cup Range(cx) \cup {gs[i].formula : i \in DOMAIN gs}
    \cup UNION {Range(gs[i].assumptions) : i \in DOMAIN gs}
    \cup (IF l.pc = "returned" /\ l.ret # None THEN {l.ret} ELSE {})
    \cup (IF "first" \in DOMAIN l THEN {l.first} ELSE {})

\* The Rule objects some holder still refers to; the others are garbage.
Live(sr, gs, cx, l) == OtherRefs(other) \cup Held(sr, gs, cx, l)

Collect(store, sr, gs, cx, l) == Restrict(store, DOMAIN store \cap Live(sr, gs, cx, l))

\* ProofState.error had it appended every message, reported before or not.
error_every_time(errs, log, ln, message) ==
    [errors |-> errs \cup {message}, state_errors |-> Append(log, <<FileName, ln, message>>)]

\* self.errors.add(message) left out: the message is appended and not
\* remembered.
error_not_remembered(errs, log, ln, message) ==
    IF message \notin errs
    THEN [errors |-> errs, state_errors |-> Append(log, <<FileName, ln, message>>)]
    ELSE [errors |-> errs, state_errors |-> log]

\* ProofState.error had it put the new entry in front of the log.
error_prepended(errs, log, ln, message) ==
    IF message \notin errs
    THEN [errors |-> errs \cup {message}, state_errors |-> <<<<FileName, ln, message>>>> \o log]
    ELSE [errors |-> errs, state_errors |-> log]

\* ProofState.error: a message is appended to State.errors unless this
\* ProofState reported it before.
error(errs, log, ln, message) ==
    IF message \notin errs
    THEN [errors |-> errs \cup {message}, state_errors |-> Append(log, <<FileName, ln, message>>)]
    ELSE [errors |-> errs, state_errors |-> log]

\* ProofState.lookup_rule had it asked the theory first and the context and
\* the goal's assumptions only for a name the theory does not have.
lookup_rule_theory_first(rule_name, goal_i, local) ==
    LET loc == local \in {"None", "True"}
        glo == local \in {"None", "False"}
        inTheory  == glo /\ rule_name \in DOMAIN state_rule_sequence
        seq       == state_rule_sequence[rule_name]
        inContext == loc /\ ~ inTheory /\ rule_name \in DOMAIN context
        badIndex  == loc /\ ~ inTheory /\ ~ inContext /\ goal_i + 1 \notin DOMAIN goals
        inGoal    == loc /\ ~ inTheory /\ ~ inContext /\ ~ badIndex
                         /\ rule_name \in DOMAIN goals[goal_i + 1].assumptions
    IN  IF inTheory /\ seq >= sequence
        THEN [status |-> "None", rule |-> None,
              message |-> MsgBeforeDefined(rule_name, seq, sequence)]
        ELSE IF inTheory
        THEN [status |-> "rule", rule |-> state_rules[rule_name], message |-> NoMessage]
        ELSE IF badIndex
        THEN [status |-> "IndexError", rule |-> None, message |-> NoMessage]
        ELSE IF inContext
        THEN [status |-> "rule", rule |-> context[rule_name], message |-> NoMessage]
        ELSE IF inGoal
        THEN [status |-> "rule", rule |-> goals[goal_i + 1].assumptions[rule_name],
              message |-> NoMessage]
        ELSE [status |-> "None", rule |-> None, message |-> MsgNotDefined(rule_name)]

\* ProofState.lookup_rule had it turned away only the rules defined after its
\* own position, the rule defined at that position let through.
lookup_rule_allows_equal(rule_name, goal_i, local) ==
    LET loc == local \in {"None", "True"}
        glo == local \in {"None", "False"}
        inContext == loc /\ rule_name \in DOMAIN context
        badIndex  == loc /\ ~ inContext /\ goal_i + 1 \notin DOMAIN goals
        inGoal    == loc /\ ~ inContext /\ ~ badIndex
                         /\ rule_name \in DOMAIN goals[goal_i + 1].assumptions
        localRule == IF inContext THEN context[rule_name]
                     ELSE IF inGoal THEN goals[goal_i + 1].assumptions[rule_name]
                     ELSE None
        inTheory  == glo /\ localRule = None /\ rule_name \in DOMAIN state_rule_sequence
        seq       == state_rule_sequence[rule_name]
    IN  IF badIndex
        THEN [status |-> "IndexError", rule |-> None, message |-> NoMessage]
        ELSE IF inTheory /\ seq > sequence
        THEN [status |-> "None", rule |-> None,
              message |-> MsgBeforeDefined(rule_name, seq, sequence)]
        ELSE IF inTheory
        THEN [status |-> "rule", rule |-> state_rules[rule_name], message |-> NoMessage]
        ELSE IF localRule = None
        THEN [status |-> "None", rule |-> None, message |-> MsgNotDefined(rule_name)]
        ELSE [status |-> "rule", rule |-> localRule, message |-> NoMessage]

\* ProofState.lookup_rule up to its return: the value of the local `rule`
\* (a reference, or None), how the call ends, and the message it reports.
lookup_rule(rule_name, goal_i, local) ==
    LET loc == local \in {"None", "True"}
        glo == local \in {"None", "False"}
        inContext == loc /\ rule_name \in DOMAIN context
        badIndex  == loc /\ ~ inContext /\ goal_i + 1 \notin DOMAIN goals
        inGoal    == loc /\ ~ inContext /\ ~ badIndex
                         /\ rule_name \in DOMAIN goals[goal_i + 1].assumptions
        localRule == IF inContext THEN context[rule_name]
                     ELSE IF inGoal THEN goals[goal_i + 1].assumptions[rule_name]
                     ELSE None
        inTheory  == glo /\ localRule = None /\ rule_name \in DOMAIN state_rule_sequence
        seq       == state_rule_sequence[rule_name]
    IN  IF badIndex
        THEN [status |-> "IndexError", rule |-> None, message |-> NoMessage]
        ELSE IF inTheory /\ seq >= sequence
        THEN [status |-> "None", rule |-> None,
              message |-> MsgBeforeDefined(rule_name, seq, sequence)]
        ELSE IF inTheory
        THEN [status |-> "rule", rule |-> state_rules[rule_name], message |-> NoMessage]
        ELSE IF localRule = None
        THEN [status |-> "None", rule |-> None, message |-> MsgNotDefined(rule_name)]
        ELSE [status |-> "rule", rule |-> localRule, message |-> NoMessage]

\* The diagnostics after a call of lookup_rule that ended as r.
Reported(r) ==
    IF r.message = NoMessage
    THEN [errors |-> errors, state_errors |-> state_errors]
    ELSE error(errors, state_errors, line, r.message)

\* ProofState.target_rule.
target_rule(target) ==
    IF target = "" /\ Len(goals) > 0 THEN goals[1].formula
    ELSE IF target \in DOMAIN context THEN context[target]
    ELSE None

SideOf(r, side) == IF side = "lhs" THEN r.lhs ELSE r.rhs

\* The assignment to the target's side left out.
set_side_skipped(store, t, side, graph) == store

\* The assignment had it gone to both sides of the target.
set_side_both(store, t, side, graph) == [store EXCEPT ![t].lhs = graph, ![t].rhs = graph]

\* self.target_rule(target).lhs = graph, or .rhs = graph.
set_side(store, t, side, graph) ==
    IF side = "lhs" THEN [store EXCEPT ![t].lhs = graph] ELSE [store EXCEPT ![t].rhs = graph]

\* The for loop had it searched the target's current graph anew at every element.
next_candidates_reread(g, current) ==
    {[m |-> m, G |-> current] : m \in Matches(g.rule.lhs, current)}

\* What the for loop over Matches(rule.lhs, graph) draws its next element from:
\* the occurrences not yet produced, in the graph object the loop was started on.
next_candidates(g, current) == {[m |-> m, G |-> g.graph] : m \in g.remaining}

\* ------------------------------------------------ the theory and the goal
\* A graph with a wire that fans out: both inputs of m hang on vertex 0.
Fork == mkGraph(2, <<Edge(<<0, 0>>, <<1>>, "m")>>, <<0>>, <<1>>)

\* The theory: three rules proven before the proof, and fuse, which sits at
\* the proof's own position.
Theory ==
    [intro |-> [rule |-> RuleTable.intro, seq |-> 0],
     elim  |-> [rule |-> converse(RuleTable.intro), seq |-> 1],
     relabel |-> [rule |-> RuleTable.relabel, seq |-> 2],
     fuse  |-> [rule |-> RuleTable.fuse, seq |-> 3]]

TheoryRefs == [intro |-> 1, elim |-> 2, relabel |-> 3, fuse |-> 4]

\* The goal f = m after a fork.  Its assumptions: one named like the global
\* rule fuse and unlike it, one named like the global rule elim and equal to it.
GoalFormula == mkRule(BoxF, Fork)

GoalAssumptions ==
    [fuse |-> RuleTable.comm,
     elim |-> converse(RuleTable.intro)]

AssumptionRefs == [fuse |-> 6, elim |-> 7]

\* The names a caller looks up.
CallerNames == DOMAIN Theory \cup {"undefined_rule"}

\* The names a caller rewrites with.
RewriteNames == {"intro", "elim", "fuse", "undefined_rule"}

\* The names a caller copies into the context before it rewrites.
ContextNames == {"relabel", "fuse", "undefined_rule"}

\* The targets a caller names: the top goal, or a rule of the context.
CallerTargets == {"", "relabel"}

InitialRule(r) ==
    IF r = 5 THEN GoalFormula
    ELSE IF r \in Range(AssumptionRefs)
    THEN GoalAssumptions[CHOOSE n \in DOMAIN AssumptionRefs : AssumptionRefs[n] = r]
    ELSE Theory[CHOOSE n \in DOMAIN TheoryRefs : TheoryRefs[n] = r].rule

\* ProofState(state, sequence, goals) over the theory, with no goal or with one.
Init ==
    /\ run = NoRun
    /\ state_rules = TheoryRefs
    /\ state_rule_sequence = [n \in DOMAIN Theory |-> Theory[n].seq]
    /\ state_errors = <<>>
    /\ \/ /\ goals = <<>>
          /\ rule_store = [r \in Range(TheoryRefs) |-> InitialRule(r)]
       \/ /\ goals = <<[formula |-> 5, assumptions |-> AssumptionRefs]>>
          /\ rule_store = [r \in Range(TheoryRefs) \cup {5} \cup Range(AssumptionRefs) |->
                              InitialRule(r)]
    /\ context = EmptyMap
    /\ errors = {}
    /\ line = -1
    /\ sequence = 3
    /\ gen = NoGen
    /\ lk = NoLookup
    /\ other = NoOther
    /\ call = NoCall
    /\ editor = NoEditor

\* ----------------------------------------------------------- the operations
\* rule = self.lookup_rule(rule_expr, goal_i, local), the result kept by the caller.
LookupRule(rule_expr, goal_i, local) ==
    /\ gen = NoGen
    /\ LET r   == lookup_rule(rule_expr, goal_i, local)
           rep == Reported(r)
           c   == returned_copy(rule_store, r.rule)
           l   == [pc |-> "returned", rule_expr |-> rule_expr, goal_i |-> goal_i,
                   local |-> local, status |-> r.status, rule |-> r.rule,
                   ret |-> IF r.status = "rule" THEN c.ref ELSE None]
       IN  /\ errors' = rep.errors
           /\ state_errors' = rep.state_errors
           /\ lk' = l
           /\ rule_store' = Collect(IF r.status = "rule" THEN c.store ELSE rule_store,
                                    state_rules, goals, context, l)
    /\ UNCHANGED <<run, editor, other, call, state_rules, state_rule_sequence, goals, context, line, sequence, gen>>

\* The same call of lookup_rule once more, the caller still holding the rule
\* that the first call returned.
LookupRuleAgain ==
    /\ gen = NoGen
    /\ lk.pc = "returned"
    /\ lk.status = "rule"
    /\ "first" \notin DOMAIN lk
    /\ LET r   == lookup_rule(lk.rule_expr, lk.goal_i, lk.local)
           rep == Reported(r)
           c   == returned_copy(rule_store, r.rule)
           l   == [pc |-> "returned", rule_expr |-> lk.rule_expr, goal_i |-> lk.goal_i,
                   local |-> lk.local, status |-> r.status, rule |-> r.rule,
                   ret |-> IF r.status = "rule" THEN c.ref ELSE None,
                   first |-> lk.ret]
       IN  /\ errors' = rep.errors
           /\ state_errors' = rep.state_errors
           /\ lk' = l
           /\ rule_store' = Collect(IF r.status = "rule" THEN c.store ELSE rule_store,
                                    state_rules, goals, context, l)
    /\ UNCHANGED <<run, editor, other, call, state_rules, state_rule_sequence, goals, context, line, sequence, gen>>

\* The caller assigns graph to a side of a rule that lookup_rule returned to
\* it: the last one (which = "ret") or the one before (which = "first").
MutateReturned(which, side, graph) ==
    /\ lk.pc = "returned"
    /\ lk.status = "rule"
    /\ which \in DOMAIN lk
    /\ rule_store' = set_side(rule_store, lk[which], side, graph)
    /\ UNCHANGED <<run, editor, other, call, state_rules, state_rule_sequence, state_errors, goals, context,
                   errors, line, sequence, gen, lk>>

\* add_rule_to_context had it called lookup_rule(rule_name), the context and
\* the goal's assumptions searched before the theory.
AddRuleToContext_any_scope(rule_name) ==
    /\ lk = NoLookup
    /\ LET r   == lookup_rule(rule_name, 0, "None")
           rep == Reported(r)
           kept == Collect(rule_store, state_rules, goals,
                           Restrict(context, DOMAIN context \ {rule_name}), lk)
           c   == returned_copy(rule_store, r.rule)
       IN  /\ errors' = rep.errors
           /\ state_errors' = rep.state_errors
           /\ IF r.status = "rule"
              THEN /\ context' = Extend(context, rule_name, c.ref)
                   /\ rule_store' = Collect(c.store, state_rules, goals, context', lk)
              ELSE UNCHANGED <<context, rule_store>>
    /\ UNCHANGED <<run, editor, other, call, state_rules, state_rule_sequence, goals, line, sequence, gen, lk>>

\* self.add_rule_to_context(rule_name).
AddRuleToContext(rule_name) ==
    /\ lk = NoLookup
    /\ LET r   == lookup_rule(rule_name, 0, "False")
           rep == Reported(r)
           kept == Collect(rule_store, state_rules, goals,
                           Restrict(context, DOMAIN context \ {rule_name}), lk)
           c   == returned_copy(kept, r.rule)
       IN  /\ errors' = rep.errors
           /\ state_errors' = rep.state_errors
           /\ IF r.status = "rule"
              THEN /\ context' = Extend(context, rule_name, c.ref)
                   /\ rule_store' = Collect(c.store, state_rules, goals, context', lk)
              ELSE UNCHANGED <<context, rule_store>>
    /\ UNCHANGED <<run, editor, other, call, state_rules, state_rule_sequence, goals, line, sequence, gen, lk>>

\* rewrite_lhs / rewrite_rhs had they been plain functions: the rule is looked
\* up, and a diagnostic recorded, when the sequence is asked for.
RewriteRequest_eager(side, rule_expr, target) ==
    /\ lk = NoLookup
    /\ gen = NoGen
    /\ gen' = [pc |-> "created", side |-> side, rule_expr |-> rule_expr,
               target |-> target, count |-> 0]
    /\ errors' = Reported(lookup_rule(rule_expr, 0, "None")).errors
    /\ state_errors' = Reported(lookup_rule(rule_expr, 0, "None")).state_errors
    /\ UNCHANGED <<run, editor, other, call, rule_store, state_rules, state_rule_sequence,
                   goals, context, line, sequence, lk>>

\* self.rewrite_lhs(rule_expr, target) or self.rewrite_rhs(rule_expr, target):
\* the call returns a generator and runs none of the body.
RewriteRequest(side, rule_expr, target) ==
    /\ lk = NoLookup
    /\ gen = NoGen
    /\ gen' = [pc |-> "created", side |-> side, rule_expr |-> rule_expr,
               target |-> target, count |-> 0]
    /\ UNCHANGED <<run, editor, other, call, rule_store, state_rules, state_rule_sequence, state_errors,
                   goals, context, errors, line, sequence, lk>>

Ended(g, how, exc) ==
    [pc |-> how, side |-> g.side, rule_expr |-> g.rule_expr, target |-> g.target,
     count |-> g.count, exc |-> exc]

\* What follows dpo in one turn of the loop body: d is what dpo(rule, c.m)
\* left behind and t the target as it is now.  first: the graph that was
\* searched is still the object the target's side holds, so what dpo did to
\* it shows there.
AfterDpo(g, d, t, rule, c, rest, first) ==
    LET touched == IF first
                   THEN set_side(rule_store, t, g.side, d.heap["cod"])
                   ELSE rule_store
    IN  IF d.status # "ok"
        THEN /\ gen' = [pc |-> "raised", side |-> g.side, rule_expr |-> g.rule_expr,
                        target |-> g.target, count |-> g.count, exc |-> d.status,
                        graph |-> d.heap["cod"]]
             /\ rule_store' = touched
        ELSE IF t = None
        THEN /\ gen' = Ended(g, "raised", "AttributeError")
             /\ rule_store' = touched
        ELSE /\ gen' = [pc |-> "suspended", side |-> g.side, rule_expr |-> g.rule_expr,
                        target |-> g.target, count |-> g.count + 1,
                        rule |-> rule, graph |-> d.heap["cod"], remaining |-> rest,
                        m_g |-> c.m,
                        m_h |-> [vertex_map |-> d.result.vertex_map,
                                 edge_map |-> d.result.edge_map,
                                 codomain |-> d.heap[d.result.codomain]]]
             /\ rule_store' = set_side(touched, t, g.side, d.heap[d.result.codomain])

\* One turn of the loop body for the candidate c: dpo, then the assignment to
\* the target's side and the yield.
LoopBody(g, rule, c, rest, first) ==
    AfterDpo(g, Rewrite(rule, c.m, c.G), target_rule(g.target), rule, c, rest, first)

\* The for loop entered with the occurrences ms of rule.lhs in G.
EnterLoop(g, rule, G, ms) ==
    IF ms = {}
    THEN gen' = Ended(g, "done", "StopIteration") /\ UNCHANGED rule_store
    ELSE /\ G.vindex < MaxFresh
         /\ G.eindex < MaxFresh
         /\ \E m \in ms : LoopBody(g, rule, [m |-> m, G |-> G], ms \ {m}, TRUE)

\* The generator's body up to the loop, r being what lookup_rule came to and
\* t the target.
AfterLookup(g, r, rep, t) ==
    /\ errors' = rep.errors
    /\ state_errors' = rep.state_errors
    /\ IF r.status = "IndexError"
       THEN gen' = Ended(g, "raised", "IndexError") /\ UNCHANGED rule_store
       ELSE IF r.status = "None"
       THEN gen' = Ended(g, "done", "StopIteration") /\ UNCHANGED rule_store
       ELSE IF t = None
       THEN gen' = Ended(g, "raised", "AttributeError") /\ UNCHANGED rule_store
       ELSE EnterLoop(g, rule_store[r.rule], SideOf(rule_store[t], g.side),
                      Matches(rule_store[r.rule].lhs, SideOf(rule_store[t], g.side)))

\* next(generator), the generator not yet started: the lookup, the target,
\* the search for occurrences, and the first turn of the loop.
StartPull(g) ==
    AfterLookup(g, lookup_rule(g.rule_expr, 0, "None"),
                Reported(lookup_rule(g.rule_expr, 0, "None")),
                target_rule(g.target))

\* The loop resumed with the candidates cs.
ResumeLoop(cs) ==
    IF cs = {}
    THEN gen' = Ended(gen, "done", "StopIteration") /\ UNCHANGED rule_store
    ELSE \E c \in cs : LoopBody(gen, gen.rule, c, gen.remaining \ {c.m}, FALSE)

\* next(generator), the generator suspended at its yield.
ResumePull ==
    /\ UNCHANGED <<errors, state_errors>>
    /\ ResumeLoop(next_candidates(gen, IF target_rule(gen.target) = None
                                       THEN gen.graph
                                       ELSE SideOf(rule_store[target_rule(gen.target)],
                                                   gen.side)))

RewritePull ==
    /\ lk = NoLookup
    /\ gen.pc \in {"created", "suspended"}
    /\ IF gen.pc = "created" THEN StartPull(gen) ELSE ResumePull
    /\ UNCHANGED <<run, editor, other, call, state_rules, state_rule_sequence, goals, context, line, sequence, lk>>

\* The caller lets go of the generator or of the rule a lookup returned.
Discard ==
    /\ gen # NoGen \/ lk # NoLookup
    /\ gen' = NoGen
    /\ lk' = NoLookup
    /\ rule_store' = Collect(rule_store, state_rules, goals, context, NoLookup)
    /\ UNCHANGED <<run, editor, other, call, state_rules, state_rule_sequence, state_errors, goals, context,
                   errors, line, sequence>>

\* rewrite_lhs1 / rewrite_rhs1 had them answered True whenever the loop ended
\* without an exception, an element produced or not.
first_element_assumed(g) ==
    IF g.pc \in {"suspended", "done"} THEN "True" ELSE g.exc

\* for _ in self.rewrite_lhs(...): return True / return False, g being the
\* generator after the one pull the for statement makes: True when it stands
\* at its yield, False when it ended, and otherwise the exception it raised,
\* which the for statement lets through.
first_element(g) ==
    IF g.pc = "suspended" THEN "True"
    ELSE IF g.pc = "done" THEN "False"
    ELSE g.exc

Rewrite1Op(side) == IF side = "lhs" THEN "rewrite_lhs1" ELSE "rewrite_rhs1"

\* self.rewrite_lhs1(rule_expr, target) or self.rewrite_rhs1(rule_expr, target):
\* the generator is made, pulled once and left behind.  gen keeps it as the
\* call left it until it is discarded; nothing pulls it again.
Rewrite1(side, rule_expr, target) ==
    /\ lk = NoLookup
    /\ gen = NoGen
    /\ StartPull([pc |-> "created", side |-> side, rule_expr |-> rule_expr,
                  target |-> target, count |-> 0])
    /\ call' = [op |-> Rewrite1Op(side), rule_expr |-> rule_expr, target |-> target,
                ret |-> first_element(gen')]
    /\ UNCHANGED <<run, editor, other, state_rules, state_rule_sequence, goals, context, line,
                   sequence, lk>>

RewriteLhs1(rule_expr, target) == Rewrite1("lhs", rule_expr, target)

RewriteRhs1(rule_expr, target) == Rewrite1("rhs", rule_expr, target)

NextFirst ==
    \/ \E n \in ContextNames : AddRuleToContext(n)
    \/ \E n \in RewriteNames, target \in CallerTargets : RewriteLhs1(n, target)
    \/ \E n \in RewriteNames, target \in CallerTargets : RewriteRhs1(n, target)
    \/ Discard

\* Rewriting by the first occurrence only.
SpecFirst == Init /\ [][NextFirst]_vars

\* ProofState.global_rules(): the names of the theory whose position is not
\* after the ProofState's (the list is taken as the set of its names).
global_rules == {n \in DOMAIN state_rule_sequence : state_rule_sequence[n] <= sequence}

\* names = self.global_rules(), the list kept by the caller.
GlobalRules ==
    /\ call' = [op |-> "global_rules", ret |-> global_rules]
    /\ UNCHANGED <<run, editor, other, rule_store, state_rules, state_rule_sequence, state_errors,
                   goals, context, errors, line, sequence, gen, lk>>

NextListing ==
    \/ GlobalRules
    \/ \E n \in CallerNames, local \in {"None", "True", "False"} : LookupRule(n, 0, local)
    \/ Discard

\* The rules of the theory listed and looked up.
SpecListing == Init /\ [][NextListing]_vars

NextLookup ==
    \/ \E n \in CallerNames, i \in 0 .. 1, local \in {"None", "True", "False"} :
          LookupRule(n, i, local)
    \/ \E n \in CallerNames : AddRuleToContext(n)
    \/ Discard

\* Lookups and the context, without rewriting.
SpecLookup == Init /\ [][NextLookup]_vars

\* ------------------------------------------------- the goal stack
\* The k smallest references that store has not given out.
FreshRefs(store, k) ==
    LET free == {r \in 1 .. (Cardinality(DOMAIN store) + k) : r \notin DOMAIN store}
    IN  {r \in free : Cardinality({q \in free : q < r}) < k}

\* Goal.copy had it built the new Goal over the same Rule objects.
goal_copy_shallow(store, g) == [store |-> store, goal |-> g]

\* Goal.copy(): a new Goal over a copy of every assumption and a copy of the
\* formula, the assumptions copied first.
goal_copy(store, g) ==
    LET names  == DOMAIN g.assumptions
        fresh  == FreshRefs(store, Cardinality(names))
        asm    == CHOOSE f \in [names -> fresh] : IsInjective(f)
        store2 == [r \in DOMAIN store \cup fresh |->
                      IF r \in DOMAIN store THEN store[r]
                      ELSE store[g.assumptions[CHOOSE n \in names : asm[n] = r]]]
        c      == rule_copy(store2, g.formula)
    IN  [store |-> c.store, goal |-> [formula |-> c.ref, assumptions |-> asm]]

\* The graphs replace_lhs and replace_rhs are called with: f with its vertices
\* named otherwise, g, and m, which has two inputs.
BoxFRenamed == mkGraph(2, <<Edge(<<1>>, <<0>>, "f")>>, <<1>>, <<0>>)

ReplaceGraphs == {BoxFRenamed, BoxG, BoxM}

ReplaceOp(side) == IF side = "lhs" THEN "replace_lhs" ELSE "replace_rhs"

\* self.goals[0] = g: the new goal put in the place of the top goal.
insert_over_top(gs, g) == <<g>> \o Tail(gs)

\* self.goals.insert(0, g).
insert_top(gs, g) == <<g>> \o gs

\* replace_rhs had it paired the new graph with self.lhs(), as replace_lhs does.
current_side_lhs(t, side) == rule_store[t].lhs

\* self.lhs() in replace_lhs, self.rhs() in replace_rhs: (a copy of) the side
\* of the target as it is when the call begins.
current_side(t, side) == SideOf(rule_store[t], side)

\* g.formula = r left out: the goal inserted keeps the copy of the top goal's
\* formula that Goal.copy made.
Pushed_formula_kept(t, side, new_side, r) ==
    LET gc == goal_copy(set_side(rule_store, t, side, new_side), goals[1])
    IN  /\ goals' = <<gc.goal>> \o goals
        /\ rule_store' = Collect(gc.store, state_rules, goals', context, lk)

\* replace_lhs / replace_rhs from the assignment to the target's side on, r
\* being the Rule just made: the top goal is copied after the assignment, the
\* copy is given r as its formula and is inserted at index 0.
Pushed(t, side, new_side, r) ==
    LET ref    == NewRef(rule_store)
        store1 == Extend(set_side(rule_store, t, side, new_side), ref, r)
        gc     == goal_copy(store1, goals[1])
        g      == [formula |-> ref, assumptions |-> gc.goal.assumptions]
    IN  /\ goals' = insert_top(goals, g)
        /\ rule_store' = Collect(gc.store, state_rules, goals', context, lk)

\* replace_lhs / replace_rhs had it assigned the new graph to the target's
\* side before it made the Rule: the RuleError then comes after the assignment.
Replace_assigns_first(side, new_side) ==
    /\ gen = NoGen
    /\ lk = NoLookup
    /\ LET t == target_rule("")
       IN  IF t = None
           THEN /\ call' = [op |-> ReplaceOp(side), graph |-> new_side,
                            exc |-> "AttributeError"]
                /\ UNCHANGED <<rule_store, goals, errors, state_errors>>
           ELSE LET made == Rule(current_side(t, side), new_side)
                IN  /\ call' = [op |-> ReplaceOp(side), graph |-> new_side, exc |-> "none"]
                    /\ IF made.status = "RuleError"
                       THEN /\ errors' = error(errors, state_errors, line, made.message).errors
                            /\ state_errors' =
                                  error(errors, state_errors, line, made.message).state_errors
                            /\ rule_store' = set_side(rule_store, t, side, new_side)
                            /\ UNCHANGED goals
                       ELSE /\ Len(goals) < MaxGoals
                            /\ Pushed(t, side, new_side, made.rule)
                            /\ UNCHANGED <<errors, state_errors>>
    /\ UNCHANGED <<run, editor, other, state_rules, state_rule_sequence, context, line, sequence,
                   gen, lk>>

\* self.replace_lhs(new_side) or self.replace_rhs(new_side).  With no goal
\* target_rule() is None and self.lhs() raises AttributeError, which the
\* except clause does not catch.
Replace(side, new_side) ==
    /\ gen = NoGen
    /\ lk = NoLookup
    /\ LET t == target_rule("")
       IN  IF t = None
           THEN /\ call' = [op |-> ReplaceOp(side), graph |-> new_side,
                            exc |-> "AttributeError"]
                /\ UNCHANGED <<rule_store, goals, errors, state_errors>>
           ELSE LET made == Rule(current_side(t, side), new_side)
                IN  /\ call' = [op |-> ReplaceOp(side), graph |-> new_side, exc |-> "none"]
                    /\ IF made.status = "RuleError"
                       THEN /\ errors' = error(errors, state_errors, line, made.message).errors
                            /\ state_errors' =
                                  error(errors, state_errors, line, made.message).state_errors
                            /\ UNCHANGED <<rule_store, goals>>
                       ELSE /\ Len(goals) < MaxGoals
                            /\ Pushed(t, side, new_side, made.rule)
                            /\ UNCHANGED <<errors, state_errors>>
    /\ UNCHANGED <<run, editor, other, state_rules, state_rule_sequence, context, line, sequence,
                   gen, lk>>

ReplaceLhs(new_lhs) == Replace("lhs", new_lhs)

ReplaceRhs(new_rhs) == Replace("rhs", new_rhs)

\* goals.pop(), which removes the last goal whatever i is.
pop_last(gs, i) == SubSeq(gs, 1, Len(gs) - 1)

\* goals.pop(i).
Pop(gs, i) == [k \in 1 .. (Len(gs) - 1) |-> IF k < i + 1 THEN gs[k] ELSE gs[k + 1]]

\* The position that a list of length n gives the index i: a negative index
\* counts from the end.
FromEnd(i, n) == IF i < 0 THEN i + n ELSE i

\* try_close_goal had it left the test i >= 0 out: a negative index then
\* counts from the end of the list, as list indices do.
TryCloseGoal_wraps(i) ==
    /\ gen = NoGen
    /\ lk = NoLookup
    /\ IF /\ i >= - Len(goals)
          /\ i < Len(goals)
          /\ isomorphic(rule_store[goals[FromEnd(i, Len(goals)) + 1].formula].lhs,
                        rule_store[goals[FromEnd(i, Len(goals)) + 1].formula].rhs)
       THEN /\ goals' = Pop(goals, FromEnd(i, Len(goals)))
            /\ rule_store' = Collect(rule_store, state_rules, goals', context, lk)
            /\ call' = [op |-> "try_close_goal", i |-> i, ret |-> TRUE]
       ELSE /\ call' = [op |-> "try_close_goal", i |-> i, ret |-> FALSE]
            /\ UNCHANGED <<rule_store, goals>>
    /\ UNCHANGED <<run, editor, other, state_rules, state_rule_sequence, state_errors, context,
                   errors, line, sequence, gen, lk>>

\* self.try_close_goal(i).
TryCloseGoal(i) ==
    /\ gen = NoGen
    /\ lk = NoLookup
    /\ IF /\ i >= 0
          /\ i < Len(goals)
          /\ isomorphic(rule_store[goals[i + 1].formula].lhs,
                        rule_store[goals[i + 1].formula].rhs)
       THEN /\ goals' = Pop(goals, i)
            /\ rule_store' = Collect(rule_store, state_rules, goals', context, lk)
            /\ call' = [op |-> "try_close_goal", i |-> i, ret |-> TRUE]
       ELSE /\ call' = [op |-> "try_close_goal", i |-> i, ret |-> FALSE]
            /\ UNCHANGED <<rule_store, goals>>
    /\ UNCHANGED <<run, editor, other, state_rules, state_rule_sequence, state_errors, context,
                   errors, line, sequence, gen, lk>>

NextGoals ==
    \/ \E g \in ReplaceGraphs : ReplaceLhs(g)
    \/ \E g \in ReplaceGraphs : ReplaceRhs(g)
    \/ \E i \in -1 .. MaxGoals : TryCloseGoal(i)

\* The goal stack: goals pushed by replace_lhs and replace_rhs, and closed.
SpecGoals == Init /\ [][NextGoals]_vars

\* self.validate_goal(i): the occurrence find_iso returns is recorded as
\* "Match", its absence as "None".
ValidateGoal(i) ==
    /\ gen = NoGen
    /\ lk = NoLookup
    /\ call' = [op |-> "validate_goal", i |-> i,
                ret |-> IF /\ i >= 0
                           /\ i < Len(goals)
                           /\ isomorphic(rule_store[goals[i + 1].formula].lhs,
                                         rule_store[goals[i + 1].formula].rhs)
                        THEN "Match" ELSE "None"]
    /\ UNCHANGED <<run, editor, other, rule_store, state_rules, state_rule_sequence, state_errors,
                   goals, context, errors, line, sequence, gen, lk>>

NextIndex ==
    \/ \E g \in ReplaceGraphs : ReplaceLhs(g)
    \/ \E g \in ReplaceGraphs : ReplaceRhs(g)
    \/ \E i \in -1 .. MaxGoals : TryCloseGoal(i)
    \/ \E i \in -1 .. MaxGoals : ValidateGoal(i)

\* Goals pushed, validated and closed, by indices inside the stack and outside.
SpecIndex == Init /\ [][NextIndex]_vars

\* The holder of goal number i assigns graph to a side of its assumption
\* name: goals[i].assumptions[name].lhs = graph, or .rhs = graph.
MutateAssumption(i, name, side, graph) ==
    /\ gen = NoGen
    /\ lk = NoLookup
    /\ i + 1 \in DOMAIN goals
    /\ name \in DOMAIN goals[i + 1].assumptions
    /\ rule_store' = set_side(rule_store, goals[i + 1].assumptions[name], side, graph)
    /\ call' = [op |-> "assign", i |-> i, name |-> name, side |-> side]
    /\ UNCHANGED <<run, editor, other, state_rules, state_rule_sequence, state_errors, goals,
                   context, errors, line, sequence, gen, lk>>

\* The depth up to which goals are pushed where their assumptions are
\* assigned to.
AssumptionGoals == 2

\* The names of the assumptions of the initial goal.
AssumptionNames == DOMAIN GoalAssumptions

NextAssumptions ==
    \/ Len(goals) < AssumptionGoals /\ ReplaceLhs(BoxG)
    \/ Len(goals) < AssumptionGoals /\ ReplaceRhs(BoxG)
    \/ \E i \in 0 .. (AssumptionGoals - 1), n \in AssumptionNames, side \in {"lhs", "rhs"} :
          MutateAssumption(i, n, side, Wire)
    \/ \E i \in 0 .. (AssumptionGoals - 1), n \in AssumptionNames :
          LookupRule(n, i, "True")
    \/ Discard

\* Goals pushed, their assumptions assigned to and looked up.
SpecAssumptions == Init /\ [][NextAssumptions]_vars

\* ------------------------------------------------- snapshots
\* [g.copy() for g in self.goals]
RECURSIVE copy_goals(_, _)
copy_goals(store, gs) ==
    IF gs = <<>>
    THEN [store |-> store, goals |-> <<>>]
    ELSE [store |-> copy_goals(goal_copy(store, Head(gs)).store, Tail(gs)).store,
          goals |-> <<goal_copy(store, Head(gs)).goal>>
                    \o copy_goals(goal_copy(store, Head(gs)).store, Tail(gs)).goals]

\* The lines of the proof steps a snapshot is taken at.
MarkerLines == {1, 2}

\* snapshot had it kept the line of the ProofState it is taken of.
snapshot_line_kept(part_line) == line

\* ps.line = part.line
snapshot_line(part_line) == part_line

\* ps = self.snapshot(part): the ProofState returned, which the caller keeps.
\* One snapshot is taken in a behaviour.
Snapshot(part_line) ==
    /\ gen = NoGen
    /\ lk = NoLookup
    /\ other = NoOther
    /\ other' = [pc      |-> "snapshot",
                 goals   |-> copy_goals(Restrict(rule_store, DOMAIN rule_store
                                            \cap Held(state_rules, goals, context, lk)),
                                        goals).goals,
                 context |-> EmptyMap,
                 errors  |-> {},
                 line    |-> snapshot_line(part_line)]
    /\ rule_store' = copy_goals(Restrict(rule_store, DOMAIN rule_store
                                    \cap Held(state_rules, goals, context, lk)),
                                goals).store
    /\ call' = [op |-> "snapshot", line |-> part_line]
    /\ UNCHANGED <<run, editor, state_rules, state_rule_sequence, state_errors, goals, context,
                   errors, line, sequence, gen, lk>>

\* The caller turns to the ProofState it has not been operating on: from the
\* live one to its snapshot, or back.
Swap ==
    /\ gen = NoGen
    /\ lk = NoLookup
    /\ other.pc # "none"
    /\ other' = [pc      |-> CASE other.pc = "snapshot" -> "live"
                              [] other.pc = "live"     -> "snapshot"
                              [] other.pc = "copy"     -> "original"
                              [] other.pc = "original" -> "copy",
                 goals   |-> goals,
                 context |-> context,
                 errors  |-> errors,
                 line    |-> line]
    /\ goals' = other.goals
    /\ context' = other.context
    /\ errors' = other.errors
    /\ line' = other.line
    /\ call' = NoCall
    /\ UNCHANGED <<run, editor, rule_store, state_rules, state_rule_sequence, state_errors,
                   sequence, gen, lk>>

\* { rn: r.copy() for rn, r in self.context.items() }
copy_context(store, cx) ==
    LET names == DOMAIN cx
        fresh == FreshRefs(store, Cardinality(names))
        c     == CHOOSE f \in [names -> fresh] : IsInjective(f)
    IN  [store   |-> [r \in DOMAIN store \cup fresh |->
                        IF r \in DOMAIN store THEN store[r]
                        ELSE store[cx[CHOOSE n \in names : c[n] = r]]],
         context |-> c]

\* The Rule objects after ProofState.copy() and the copy it returns: the
\* goals are copied first, then the context; errors and line are taken over.
copied(store) ==
    [store   |-> copy_context(copy_goals(store, goals).store, context).store,
     goals   |-> copy_goals(store, goals).goals,
     context |-> copy_context(copy_goals(store, goals).store, context).context,
     errors  |-> errors,
     line    |-> line]

\* ps = self.copy(): the ProofState returned, which the caller keeps.  One
\* copy or snapshot is taken in a behaviour.
Copy ==
    /\ gen = NoGen
    /\ lk = NoLookup
    /\ other = NoOther
    /\ other' = [pc      |-> "copy",
                 goals   |-> copied(Restrict(rule_store, DOMAIN rule_store
                                        \cap Held(state_rules, goals, context, lk))).goals,
                 context |-> copied(Restrict(rule_store, DOMAIN rule_store
                                        \cap Held(state_rules, goals, context, lk))).context,
                 errors  |-> errors,
                 line    |-> line]
    /\ rule_store' = copied(Restrict(rule_store, DOMAIN rule_store
                                \cap Held(state_rules, goals, context, lk))).store
    /\ call' = [op |-> "copy"]
    /\ UNCHANGED <<run, editor, state_rules, state_rule_sequence, state_errors, goals, context,
                   errors, line, sequence, gen, lk>>

\* The graphs replace_lhs is called with beside snapshots: g, and m, which has
\* two inputs.
SnapshotGraphs == {BoxG, BoxM}

NextSnapshot ==
    \/ \E l \in MarkerLines : Snapshot(l)
    \/ Swap
    \/ \E g \in SnapshotGraphs : Len(goals) < SnapshotGoals /\ ReplaceLhs(g)
    \/ TryCloseGoal(0)
    \/ RewriteRequest("lhs", "relabel", "")
    \/ RewritePull
    \/ Discard

\* A ProofState and a snapshot of it, both operated on: goals pushed,
\* rewritten and closed.
SpecSnapshot == Init /\ [][NextSnapshot]_vars

\* The names that add_rule_to_context fails on: a rule defined at the
\* ProofState's own position, and a rule never defined.
FailingNames == {"fuse", "undefined_rule"}

NextDiagnostics ==
    \/ \E l \in MarkerLines : Snapshot(l)
    \/ Swap
    \/ \E n \in FailingNames : AddRuleToContext(n)
    \/ ReplaceLhs(BoxM)
    \/ ReplaceRhs(BoxM)

\* A ProofState and a snapshot of it, both made to report diagnostics.
SpecDiagnostics == Init /\ [][NextDiagnostics]_vars

NextLog ==
    \/ \E l \in MarkerLines : Snapshot(l)
    \/ Copy
    \/ Swap
    \/ \E n \in FailingNames \cup {"relabel"} : AddRuleToContext(n)
    \/ ReplaceLhs(BoxM)
    \/ ReplaceRhs(BoxM)

\* A ProofState and a copy or a snapshot of it, both made to report
\* diagnostics.
SpecLog == Init /\ [][NextLog]_vars

\* The names looked up twice: an assumption that the theory has too, a rule
\* of the theory that the context can hold, an assumption whose namesake in
\* the theory is not yet defined.
CopyNames == {"elim", "relabel", "fuse"}

NextCopies ==
    \/ \E n \in CopyNames, local \in {"None", "True", "False"} : LookupRule(n, 0, local)
    \/ LookupRuleAgain
    \/ \E which \in {"ret", "first"}, side \in {"lhs", "rhs"} :
          MutateReturned(which, side, Wire)
    \/ AddRuleToContext("relabel")
    \/ Discard

\* Lookups repeated and the rules they returned assigned to by the caller.
SpecCopies == Init /\ [][NextCopies]_vars

Next ==
    \/ \E n \in ContextNames : AddRuleToContext(n)
    \/ \E side \in {"lhs", "rhs"}, n \in RewriteNames, target \in CallerTargets :
          RewriteRequest(side, n, target)
    \/ RewritePull
    \/ Discard

\* Rewriting, the context and the generator of rewrites.
Spec == Init /\ [][Next]_vars

\* ------------------------------------------------------ the editor's re-check
\* The closure that update(r) makes had it run update_state whatever the
\* revision is when the timer fires.
update_unconditional(r, revision) == TRUE

\* The closure f that update(r) makes, called when self.revision is revision:
\* whether it runs update_state.
update(r, revision) == r = revision

\* What parser.parse and checker.check leave in the new State's errors: none,
\* or one error.
CheckOutcomes == {<<>>, <<<<FileName, 1, "parse error">>>>}

\* Editor.update_state with the new State having the errors errs: the text is
\* read into self.code, and parsed is set when there is no error.
update_state(ed, errs) ==
    [ed EXCEPT !.code = ed.text,
               !.parsed = IF Len(errs) = 0 THEN TRUE ELSE ed.parsed]

\* Editor.invalidate_text, the slot of textChanged, on the text just changed.
invalidate_text(ed) ==
    [ed EXCEPT !.parsed = FALSE,
               !.revision = ed.revision + 1,
               !.timers = Append(ed.timers,
                                 [r |-> ed.revision + 1, pc |-> "pending", at |-> None])]

\* The user changes the text: textChanged calls invalidate_text.
TextChanged ==
    /\ editor.text < MaxChanges
    /\ editor' = invalidate_text([editor EXCEPT !.text = editor.text + 1])
    /\ UNCHANGED <<run, rule_store, state_rules, state_rule_sequence, state_errors,
                   goals, context, errors, line, sequence, gen, lk, other, call>>

\* The single-shot timer number j fires and calls its closure f, which reads
\* self.revision and runs update_state or returns.
TimerFires(j) ==
    /\ j \in DOMAIN editor.timers
    /\ editor.timers[j].pc = "pending"
    /\ LET runs == update(editor.timers[j].r, editor.revision)
           done == [editor EXCEPT !.timers[j].pc = IF runs THEN "update_state" ELSE "returned",
                                  !.timers[j].at = editor.revision]
       IN  IF runs
           THEN \E errs \in CheckOutcomes :
                    /\ editor' = update_state(done, errs)
                    /\ state_errors' = errs
           ELSE /\ editor' = done
                /\ UNCHANGED state_errors
    /\ UNCHANGED <<run, rule_store, state_rules, state_rule_sequence,
                   goals, context, errors, line, sequence, gen, lk, other, call>>

\* Editor.next_rewrite_at_cursor: update_state, and when the text is parsed
\* and the cursor is in a rewrite step with a next right-hand side, that term
\* is inserted, which changes the text.
NextRewriteAtCursor(inserts) ==
    /\ \E errs \in CheckOutcomes :
          LET ed == update_state(editor, errs)
          IN  /\ state_errors' = errs
              /\ editor' = IF ed.parsed /\ inserts /\ ed.text < MaxChanges
                            THEN invalidate_text([ed EXCEPT !.text = ed.text + 1])
                            ELSE ed
    /\ UNCHANGED <<run, rule_store, state_rules, state_rule_sequence,
                   goals, context, errors, line, sequence, gen, lk, other, call>>

NextEditor ==
    \/ TextChanged
    \/ \E j \in 1 .. MaxChanges : TimerFires(j)
    \/ \E inserts \in BOOLEAN : NextRewriteAtCursor(inserts)

\* The editor: text changes, timers firing in any order, and the re-check
\* asked for at the cursor.
SpecEditor == Init /\ [][NextEditor]_vars

\* ------------------------------------------------- properties of dpo (SpecDpo)
\* Neither side of the rule has a Frobenius boundary.
Supported(r) == ~ HasFrobeniusBoundary(r.lhs) /\ ~ HasFrobeniusBoundary(r.rhs)

\* The graph G with the images of the lhs edges taken out.
WithoutLhsEdges(r, m, G) == Restrict(G.edata, DOMAIN G.edata \ Range(m.edge_map))

\* The lhs boundary vertices that are input once and output once.
SplitVertices(r) ==
    {v \in vertices(r.lhs) : Cardinality(in_indices(r.lhs, v)) = 1
                             /\ Cardinality(out_indices(r.lhs, v)) = 1}

\* The image of every vertex to split carries, outside the occurrence, exactly
\* one arriving and exactly one leaving wire-end.
CleanSplits(r, m, G) ==
    LET C0 == [G EXCEPT !.edata = WithoutLhsEdges(r, m, G)]
    IN  \A v \in SplitVertices(r) :
            /\ Cardinality(InSlots(C0, m.vertex_map[v])) = 1
            /\ Cardinality(OutSlots(C0, m.vertex_map[v])) = 1

\* Vertex y of H carries every wire-end and port that vertex x carries in C.
StandsFor(C, H, x, y) ==
    /\ y \in vertices(H)
    /\ \A e \in edges(C) :
          /\ e \in edges(H)
          /\ \A j \in DOMAIN C.edata[e].s : C.edata[e].s[j] = x => H.edata[e].s[j] = y
          /\ \A j \in DOMAIN C.edata[e].t : C.edata[e].t[j] = x => H.edata[e].t[j] = y
    /\ \A k \in DOMAIN C.inputs  : C.inputs[k] = x  => H.inputs[k] = y
    /\ \A k \in DOMAIN C.outputs : C.outputs[k] = x => H.outputs[k] = y

\* The result is an occurrence of rhs in H.
IsOccurrence(rhs, H, res) ==
    /\ DOMAIN res.vertex_map = vertices(rhs)
    /\ DOMAIN res.edge_map = edges(rhs)
    /\ Range(res.vertex_map) \subseteq vertices(H)
    /\ Range(res.edge_map) \subseteq edges(H)
    /\ \A e \in edges(rhs) :
          /\ H.edata[res.edge_map[e]].value = rhs.edata[e].value
          /\ H.edata[res.edge_map[e]].s = MapSeq(rhs.edata[e].s, res.vertex_map)
          /\ H.edata[res.edge_map[e]].t = MapSeq(rhs.edata[e].t, res.vertex_map)

\* Port for port, the rhs boundary is sent to the vertex that stands for the
\* image of the lhs boundary (its inbound / outbound half when it was split).
PortsAligned(r, m, G, out) ==
    LET pc == pushout_complement(r, m, [x \in {"cod"} |-> G])
        C  == pc.heap[pc.ctx]
    IN  /\ Len(r.rhs.inputs) = Len(r.lhs.inputs)
        /\ Len(r.rhs.outputs) = Len(r.lhs.outputs)
        /\ \A i \in DOMAIN r.rhs.inputs :
              LET vl == r.lhs.inputs[i]
                  x  == IF vl \in SplitVertices(r) THEN out.in_map[vl] ELSE m.vertex_map[vl]
              IN  StandsFor(C, out.H, x, out.result.vertex_map[r.rhs.inputs[i]])
        /\ \A i \in DOMAIN r.rhs.outputs :
              LET vl == r.lhs.outputs[i]
                  x  == IF vl \in SplitVertices(r) THEN out.out_map[vl] ELSE m.vertex_map[vl]
              IN  StandsFor(C, out.H, x, out.result.vertex_map[r.rhs.outputs[i]])

DpoSucceedsAligned ==
    /\ run.out.status = "ok"
    /\ IsOccurrence(run.rule.rhs, run.out.H, run.out.result)
    /\ PortsAligned(run.rule, run.match, run.G, run.out)

\* C2 as stated: for every supported rule and every occurrence, dpo succeeds
\* with one occurrence of rhs whose boundary is aligned port for port.
C2_AsClaimed ==
    (run.pc = "applied" /\ Supported(run.rule)) => DpoSucceedsAligned

\* C2, amended: for every supported rule and every occurrence in which each
\* vertex to split carries exactly one arriving and one leaving wire-end outside
\* the occurrence, dpo succeeds with one occurrence of rhs in the rewritten
\* graph, and port for port the rhs boundary is sent to the vertex that stands
\* for the image of the lhs boundary.
C2_DpoSucceedsAligned ==
    (run.pc = "applied" /\ Supported(run.rule)
        /\ CleanSplits(run.rule, run.match, run.G)) => DpoSucceedsAligned

\* A supported rule with a vertex to split has been applied and succeeded.
C2_Witness ==
    /\ run.pc = "applied"
    /\ Supported(run.rule)
    /\ SplitVertices(run.rule) # {}
    /\ run.out.status = "ok"
    /\ Len(run.rule.rhs.inputs) > 0

\* C3: every graph dpo returns is free of dangling wire-ends: every entry of
\* every edge's source and target sequence and every port is a vertex of it.
C3_NoDanglingWireEnds ==
    /\ (run.pc \in {"applied", "back", "again"} /\ run.out.status = "ok")
          => NoDangling(run.out.H)
    /\ (run.pc \in {"back", "again"} /\ run.out2.status = "ok")
          => NoDangling(run.out2.H)

\* dpo succeeded after splitting a boundary vertex and after merging two.
C3_Witness ==
    /\ run.pc = "back"
    /\ run.out.status = "ok"
    /\ run.out2.status = "ok"
    /\ DOMAIN run.out.in_map # {}
    /\ num_vertices(run.out2.H) < num_vertices(run.out.H)

\* Some lhs boundary vertex is not input once and output once.
HasOtherBoundaryCount(r) ==
    \E v \in vertices(r.lhs) : is_boundary(r.lhs, v) /\ v \notin SplitVertices(r)

\* C4 as stated: a boundary vertex is split only when it is input once and
\* output once, and every other count fails the call.
C4_AsClaimed ==
    run.pc = "applied" =>
        /\ DOMAIN run.out.in_map \subseteq SplitVertices(run.rule)
        /\ HasOtherBoundaryCount(run.rule) => run.out.status = "NotImplementedError"

\* C4, amended: an lhs boundary vertex is split only when it occupies exactly
\* one input and exactly one output position; the call fails with the
\* capability error when some lhs boundary vertex occupies more than one input
\* or more than one output position; a boundary vertex that occupies at most
\* one position on each side, and not one on both, is neither split nor
\* rejected: with clean splits the call succeeds.
C4_SplitOnlyOneOne ==
    run.pc = "applied" =>
        /\ DOMAIN run.out.in_map \subseteq SplitVertices(run.rule)
        /\ DOMAIN run.out.out_map = DOMAIN run.out.in_map
        /\ run.out.status = "ok" => DOMAIN run.out.in_map = SplitVertices(run.rule)
        /\ HasFrobeniusBoundary(run.rule.lhs) =>
              /\ run.out.status = "NotImplementedError"
              /\ run.out.result = NoResult
        /\ (~ HasFrobeniusBoundary(run.rule.lhs)
              /\ CleanSplits(run.rule, run.match, run.G)) => run.out.status = "ok"

\* A rule whose lhs boundary vertices are inputs only or outputs only has been
\* applied, and the call succeeded without a split.
C4_Witness ==
    /\ run.pc = "applied"
    /\ HasOtherBoundaryCount(run.rule)
    /\ ~ HasFrobeniusBoundary(run.rule.lhs)
    /\ run.out.status = "ok"
    /\ run.out.in_map = EmptyMap

SameSize(a, b) ==
    /\ num_vertices(a) = num_vertices(b)
    /\ num_edges(a) = num_edges(b)
    /\ Len(a.inputs) = Len(b.inputs)
    /\ Len(a.outputs) = Len(b.outputs)

Pulled ==
    /\ gen.pc \in {"created", "suspended"}
    /\ gen'.pc \in {"suspended", "done", "raised"}
    /\ gen' # gen

\* A pull that ends at the yield.
Yielded == Pulled /\ gen'.pc = "suspended"

\* A pull out of which dpo's NotImplementedError comes.
Failed == Pulled /\ gen'.pc = "raised" /\ gen'.exc = "NotImplementedError"

\* The graph on the generator's side of its target.
TargetSide == SideOf(rule_store[target_rule(gen.target)], gen.side)

\* The graph dpo makes of G at the occurrence m.
Rewritten(rule, m, G) ==
    LET d == Rewrite(rule, m, G) IN d.heap[d.result.codomain]

\* The graph the generator searches: the one its target's side holds at the
\* first pull, the one it kept afterwards.
SearchedGraph == IF gen.pc = "created" THEN TargetSide ELSE gen.graph

C5_FailureLeavesEverything ==
    [][Failed
          => /\ gen'.graph = SearchedGraph
             /\ goals' = goals
             /\ context' = context
             /\ rule_store' = rule_store]_vars

\* A pull on the goal's rhs ended in NotImplementedError.
C5_Witness ==
    /\ gen.pc = "raised"
    /\ gen.exc = "NotImplementedError"
    /\ gen.target = ""
    /\ gen.side = "rhs"
    /\ gen.graph = GoalFormula.rhs
    /\ rule_store[goals[1].formula].rhs = GoalFormula.rhs

Arity(g) == <<Len(g.inputs), Len(g.outputs)>>

\* C7: no pull changes the number of inputs or of outputs of the lhs or of the
\* rhs of any goal's formula, nor the number of goals.
C7_BoundaryCardinalitiesKept ==
    [][Pulled
          => /\ Len(goals') = Len(goals)
             /\ \A i \in DOMAIN goals :
                   /\ Arity(rule_store'[goals'[i].formula].lhs)
                         = Arity(rule_store[goals[i].formula].lhs)
                   /\ Arity(rule_store'[goals'[i].formula].rhs)
                         = Arity(rule_store[goals[i].formula].rhs)]_vars

\* A pull merged the input and the output of the goal's lhs into one vertex.
C7_Witness ==
    /\ gen.pc = "suspended"
    /\ gen.target = ""
    /\ gen.side = "lhs"
    /\ gen.rule_expr = "elim"
    /\ TargetSide.inputs = TargetSide.outputs
    /\ Arity(TargetSide) = Arity(GoalFormula.lhs)

\* C8: at the yield the target's side is equal to the codomain of the result
\* occurrence; when the caller drops the suspended generator, every rule, the
\* goal stack and the context stay as they are.
C8_CommittedBeforeYield ==
    [][/\ Yielded => TargetSide' = gen'.m_h.codomain
       /\ (gen.pc = "suspended" /\ gen'.pc = "none")
             => /\ rule_store' = rule_store
                /\ goals' = goals
                /\ context' = context]_vars

\* The generator is suspended at its yield and the target already differs
\* from the graph that was searched.
C8_Witness ==
    /\ gen.pc = "suspended"
    /\ TargetSide = gen.m_h.codomain
    /\ TargetSide # gen.graph

\* The name resolves nowhere.
Unresolved(rule_name) ==
    /\ rule_name \notin DOMAIN context
    /\ goals # <<>> => rule_name \notin DOMAIN goals[1].assumptions
    /\ rule_name \notin DOMAIN state_rules

\* The first pull of a sequence whose rule name resolves nowhere, with a top goal.
PullsUnresolved == Pulled /\ gen.pc = "created" /\ goals # <<>> /\ Unresolved(gen.rule_expr)

NotDefinedEntry == <<FileName, line, MsgNotDefined(gen.rule_expr)>>

\* C9 as the specification states it: the pull adds exactly one entry.
C9_AsClaimed ==
    [][PullsUnresolved
          => /\ gen'.pc = "done"
             /\ gen'.count = 0
             /\ goals' = goals
             /\ context' = context
             /\ state_errors' = Append(state_errors, NotDefinedEntry)]_vars

\* C9: with a top goal and a rule name that resolves nowhere, the sequence
\* ends at the first pull without a pair, goal stack and context unchanged;
\* the entry 'Rule <name> not defined.' is appended to the log unless this
\* ProofState reported that message before, in which case the log is unchanged.
C9_UndefinedRuleReportedOnce ==
    [][PullsUnresolved
          => /\ gen'.pc = "done"
             /\ gen'.count = 0
             /\ goals' = goals
             /\ context' = context
             /\ rule_store' = rule_store
             /\ state_errors' = IF MsgNotDefined(gen.rule_expr) \in errors
                                THEN state_errors
                                ELSE Append(state_errors, NotDefinedEntry)
             /\ Cardinality({k \in DOMAIN state_errors' :
                               state_errors'[k][3] = MsgNotDefined(gen.rule_expr)}) = 1]_vars

\* A sequence for an undefined name has ended without a pair, the message is
\* in the log and a goal is there.
C9_Witness ==
    /\ gen.pc = "done"
    /\ gen.rule_expr = "undefined_rule"
    /\ gen.count = 0
    /\ goals # <<>>
    /\ \E k \in DOMAIN state_errors :
          state_errors[k] = <<FileName, line, MsgNotDefined("undefined_rule")>>

\* ------------------------------------------------- properties of lookup_rule
LocalRefs ==
    Range(context) \cup UNION {Range(goals[i].assumptions) : i \in DOMAIN goals}

\* C10: scope either: a name in the context resolves to the context's rule; a
\* name not in the context and in the assumptions of goal goal_i resolves to
\* the assumption, whether the theory has it or not; a rule of the theory is
\* returned only when neither has the name.  Scope local: no rule of the theory
\* is returned, and a name in neither local source is absent.  Scope global: no
\* rule of the context or of a goal is returned, and a name of the theory
\* resolves to the theory's rule or is absent.
C10_LookupOrder ==
    lk.pc = "returned" =>
        LET n      == lk.rule_expr
            inCtx  == n \in DOMAIN context
            hasGoal == lk.goal_i + 1 \in DOMAIN goals
            inAsm  == hasGoal /\ n \in DOMAIN goals[lk.goal_i + 1].assumptions
        IN  /\ lk.local \in {"None", "True"}
               => /\ inCtx => lk.status = "rule" /\ lk.rule = context[n]
                  /\ (~ inCtx /\ inAsm)
                        => lk.status = "rule" /\ lk.rule = goals[lk.goal_i + 1].assumptions[n]
            /\ lk.local = "None"
               => (lk.rule \in Range(state_rules)
                      => ~ inCtx /\ ~ inAsm /\ lk.rule = state_rules[n])
            /\ lk.local = "True"
               => /\ lk.rule \notin Range(state_rules)
                  /\ (~ inCtx /\ hasGoal /\ ~ inAsm) => lk.status = "None"
            /\ lk.local = "False"
               => /\ lk.rule \notin LocalRefs
                  /\ lk.status = "rule" => lk.rule = state_rules[n]
                  /\ n \notin DOMAIN state_rules => lk.status = "None"
            /\ lk.status = "rule"
               => /\ lk.ret \notin LocalRefs \cup Range(state_rules)
                  /\ rule_store[lk.ret] = rule_store[lk.rule]

\* A name that the context, the goal's assumptions and the theory all have was
\* looked up with scope either and the context's rule came back.
C10_Witness ==
    /\ lk.pc = "returned"
    /\ lk.local = "None"
    /\ lk.rule_expr \in DOMAIN context
    /\ lk.goal_i + 1 \in DOMAIN goals
    /\ lk.rule_expr \in DOMAIN goals[lk.goal_i + 1].assumptions
    /\ lk.rule_expr \in DOMAIN state_rules
    /\ lk.rule = context[lk.rule_expr]

\* The call of lookup_rule that lk records went on to the theory: its scope
\* lets it, neither the context nor the goal's assumptions gave it a rule, and
\* the theory has the name.
ReachedTheory ==
    /\ lk.pc = "returned"
    /\ lk.status # "IndexError"
    /\ lk.local \in {"None", "False"}
    /\ lk.local = "None"
          => /\ lk.rule_expr \notin DOMAIN context
             /\ lk.rule_expr \notin DOMAIN goals[lk.goal_i + 1].assumptions
    /\ lk.rule_expr \in DOMAIN state_rule_sequence

\* The messages of the entries of State.errors.
LoggedMessages == {state_errors[k][3] : k \in DOMAIN state_errors}

\* C11: lookup_rule returns a rule of the theory only when the rule's position
\* is strictly less than the ProofState's; a call that goes on to the theory
\* for a rule whose position is greater than or equal to the ProofState's
\* returns None and its diagnostic is among the ProofState's messages and in
\* State.errors; and every rule add_rule_to_context put into the context has a
\* position strictly less than the ProofState's.
C11_OnlyEarlierRules ==
    /\ (lk.pc = "returned" /\ lk.status = "rule" /\ lk.rule \in Range(state_rules))
          => state_rule_sequence[lk.rule_expr] < sequence
    /\ (ReachedTheory /\ state_rule_sequence[lk.rule_expr] >= sequence)
          => /\ lk.status = "None"
             /\ lk.ret = None
             /\ MsgBeforeDefined(lk.rule_expr, state_rule_sequence[lk.rule_expr], sequence)
                   \in errors \cap LoggedMessages
    /\ \A n \in DOMAIN context : state_rule_sequence[n] < sequence

\* A lookup of global scope for the rule defined at the ProofState's own
\* position, a name the goal's assumptions have too, came back with None.
C11_Witness ==
    /\ ReachedTheory
    /\ lk.local = "False"
    /\ state_rule_sequence[lk.rule_expr] = sequence
    /\ goals # <<>>
    /\ lk.rule_expr \in DOMAIN goals[1].assumptions
    /\ lk.status = "None"

\* --------------------------------------- properties of the copies returned
\* The Rule objects the ProofState and the theory hold.
StoredRefs == Range(state_rules) \cup LocalRefs

\* The fields of the ProofState and the rules it and the theory hold are after
\* the step what they were before it.
ProofStateKept ==
    /\ UNCHANGED <<goals, context, errors, line, sequence, state_errors, state_rules,
                   state_rule_sequence>>
    /\ \A ref \in StoredRefs : rule_store'[ref] = rule_store[ref]

\* The caller assigned to a rule it holds.
Mutated == lk.pc = "returned" /\ lk' = lk /\ rule_store' # rule_store

\* C12: a call of lookup_rule that returns a rule changes no field of the
\* ProofState and no rule it or the theory holds, and returns a new Rule object
\* equal to the rule found; the second of two successive calls with the same
\* arguments returns an object other than the first call's, equal to it
\* unless the caller assigned to that in between; an assignment to a returned
\* rule changes neither the other returned rule nor a rule of the context, of
\* a goal's assumptions or of the theory.
C12_IndependentCopies ==
    [][/\ (lk' # lk /\ lk'.pc = "returned" /\ lk'.status = "rule")
          => /\ ProofStateKept
             /\ lk'.ret \notin StoredRefs
             /\ rule_store'[lk'.ret] = rule_store'[lk'.rule]
             /\ "first" \in DOMAIN lk'
                   => /\ lk'.first = lk.ret
                      /\ lk'.ret # lk'.first
                      /\ lk'.rule = lk.rule
                      /\ rule_store'[lk'.first] = rule_store[lk.ret]
                      /\ rule_store[lk.ret] = rule_store[lk.rule]
                            => rule_store'[lk'.ret] = rule_store'[lk'.first]
       /\ Mutated
          => /\ ProofStateKept
             /\ \E which \in {"ret", "first"} \cap DOMAIN lk :
                   \A ref \in DOMAIN rule_store \ {lk[which]} :
                       rule_store'[ref] = rule_store[ref]
             /\ DOMAIN rule_store' = DOMAIN rule_store]_vars

\* Two rules returned for a name of the context, one of them assigned to since:
\* the other and the context's rule are still what the theory has.
C12_Witness ==
    /\ lk.pc = "returned"
    /\ "first" \in DOMAIN lk
    /\ lk.rule_expr \in DOMAIN context
    /\ lk.rule = context[lk.rule_expr]
    /\ rule_store[lk.first] # rule_store[lk.rule]
    /\ rule_store[lk.ret] = rule_store[lk.rule]
    /\ rule_store[lk.rule] = Theory[lk.rule_expr].rule

\* ------------------------------------------- properties of the goal stack
\* A goal as a value: its formula and its assumptions, the Rule objects read.
GoalValue(store, g) ==
    [formula     |-> store[g.formula],
     assumptions |-> [n \in DOMAIN g.assumptions |-> store[g.assumptions[n]]]]

GoalValues(store, gs) == [k \in DOMAIN gs |-> GoalValue(store, gs[k])]

\* The step is a call of try_close_goal.
TryCloseStep ==
    /\ other' = other
    /\ call'.op = "try_close_goal"
    /\ call' # call \/ Len(goals') = Len(goals) - 1

\* C13: try_close_goal(i) with 0 <= i < the number of goals returns True if
\* and only if the lhs and the rhs of goal i's formula are isomorphic; when it
\* returns True the goals are the former goals without goal i, the others the
\* same objects with the same contents in the same order; when it returns
\* False the goals are as before.
C13_ClosesGoalIffIsomorphic ==
    [][(TryCloseStep /\ call'.i >= 0 /\ call'.i < Len(goals))
          => LET i == call'.i + 1
             IN  /\ call'.ret <=> isomorphic(rule_store[goals[i].formula].lhs,
                                             rule_store[goals[i].formula].rhs)
                 /\ call'.ret
                       => /\ Len(goals') = Len(goals) - 1
                          /\ \A k \in DOMAIN goals' :
                                /\ goals'[k] = goals[IF k < i THEN k ELSE k + 1]
                                /\ GoalValue(rule_store', goals'[k])
                                      = GoalValue(rule_store, goals[IF k < i THEN k ELSE k + 1])
                 /\ ~ call'.ret
                       => /\ goals' = goals
                          /\ GoalValues(rule_store', goals') = GoalValues(rule_store, goals)]_vars

\* try_close_goal(0) returned True on three goals: two goals are left, the
\* second of them the goal the proof began with.
C13_Witness ==
    /\ call.op = "try_close_goal"
    /\ call.i = 0
    /\ call.ret
    /\ Len(goals) = 2
    /\ goals[2].formula = 5

\* The step is a call of replace_lhs or replace_rhs.
ReplaceStep ==
    /\ other' = other
    /\ call'.op \in {"replace_lhs", "replace_rhs"}
    /\ call' # call \/ Len(goals') = Len(goals) + 1

\* The call pushed a goal.
ReplaceSucceeded == ReplaceStep /\ Len(goals') = Len(goals) + 1

AfterReplaceLhs ==
    /\ call.op = "replace_lhs"
    /\ call.exc = "none"
    /\ Len(goals) >= 2
    /\ rule_store[goals[1].formula].rhs = call.graph
    /\ rule_store[goals[2].formula].lhs = call.graph

\* C15 as stated: the formula of the goal replace_lhs pushes is the formula the
\* top goal had before the call, lhs and rhs.
C15_AsClaimed ==
    [][(ReplaceSucceeded /\ call'.op = "replace_lhs")
          => rule_store'[goals'[1].formula] = rule_store[goals[1].formula]]_vars

\* C15: the formula of the goal replace_lhs pushes has the lhs that the top
\* goal's formula had before the call, and the graph passed as its rhs; so the
\* second of two successive calls, replace_lhs(a) then replace_lhs(b), pushes
\* (L, b) onto the (L, a) that the first pushed, turns that goal into (b, a),
\* and leaves the goal the first call was made on as the first call left it.
C15_SubGoalPairsOldLhsWithNew ==
    [][(ReplaceSucceeded /\ call'.op = "replace_lhs")
          => /\ rule_store'[goals'[1].formula].lhs = rule_store[goals[1].formula].lhs
             /\ rule_store'[goals'[1].formula].rhs = call'.graph
             /\ AfterReplaceLhs
                   => /\ rule_store'[goals'[2].formula] = [lhs |-> call'.graph, rhs |-> call.graph]
                      /\ rule_store'[goals'[3].formula] = rule_store[goals[2].formula]
                      /\ rule_store'[goals'[3].formula].lhs = call.graph]_vars

\* Two successive calls of replace_lhs with two graphs, the second call's graph
\* other than the rhs of the goal it was made on.
C15_Witness ==
    /\ AfterReplaceLhs
    /\ Len(goals) = 3
    /\ rule_store[goals[2].formula].rhs # call.graph
    /\ rule_store[goals[2].formula].rhs = rule_store[goals[3].formula].lhs
    /\ rule_store[goals[1].formula].lhs = GoalFormula.lhs
    /\ rule_store[goals[3].formula].rhs = GoalFormula.rhs

\* The call has a target whose side has as many inputs and outputs as the
\* graph passed: neither the AttributeError nor the RuleError.
ReplaceFits ==
    /\ goals # <<>>
    /\ LET old == SideOf(rule_store[goals[1].formula],
                         IF call'.op = "replace_lhs" THEN "lhs" ELSE "rhs")
       IN  /\ Len(old.inputs) = Len(call'.graph.inputs)
           /\ Len(old.outputs) = Len(call'.graph.outputs)

\* C16: a call of replace_lhs or replace_rhs that succeeds leaves one goal
\* more than there were, a call that does not leaves as many; and after either
\* the goals there were are all there, the same objects in the same order,
\* below the new one.
C16_DepthGrowsByOne ==
    [][ReplaceStep
          => /\ Len(goals') = Len(goals) + (IF ReplaceFits THEN 1 ELSE 0)
             /\ \A k \in DOMAIN goals :
                   goals'[k + (Len(goals') - Len(goals))] = goals[k]]_vars

\* Two calls that succeeded, replace_rhs the later, on the goal the proof
\* began with: three goals, that goal the lowest.
C16_Witness ==
    /\ call.op = "replace_rhs"
    /\ call.exc = "none"
    /\ Len(goals) = 3
    /\ goals[3].formula = 5
    /\ rule_store[goals[1].formula].rhs = call.graph
    /\ goals[1].formula # goals[2].formula

\* C17: a call of replace_lhs or replace_rhs on a target whose side has other
\* numbers of inputs or outputs than the graph passed returns without an
\* exception; after it the RuleError's message is among the ProofState's
\* messages and in State.errors, which has grown by that entry or not at all;
\* and the goals, every goal's formula and assumptions, the context and every
\* Rule object are what they were.
C17_MismatchChangesNothing ==
    [][(ReplaceStep /\ goals # <<>> /\ ~ ReplaceFits)
          => /\ call'.exc = "none"
             /\ MsgRuleError \in errors'
             /\ \/ state_errors' = state_errors /\ MsgRuleError \in errors
                \/ state_errors' = Append(state_errors, <<FileName, line, MsgRuleError>>)
             /\ \E k \in DOMAIN state_errors' : state_errors'[k][3] = MsgRuleError
             /\ goals' = goals
             /\ GoalValues(rule_store', goals') = GoalValues(rule_store, goals)
             /\ context' = context
             /\ rule_store' = rule_store]_vars

\* replace_lhs was called with m, which has two inputs, on goals whose sides
\* have one: the goals stand and the message is reported.
C17_Witness ==
    /\ call.op = "replace_lhs"
    /\ call.graph = BoxM
    /\ call.exc = "none"
    /\ Len(goals) = 2
    /\ MsgRuleError \in errors
    /\ state_errors = <<<<FileName, line, MsgRuleError>>>>

\* ------------------------------------- properties of add_rule_to_context
\* The step is a call of add_rule_to_context: the only operation that leaves
\* the generator, the other ProofState and the last call as they are.
AddStep == gen' = gen /\ other' = other /\ call' = call /\ lk' = lk

\* The step reports message: State.errors grows by its entry and the
\* ProofState's messages by it.
Reports(message) ==
    /\ message \notin errors
    /\ errors' = errors \cup {message}
    /\ state_errors' = Append(state_errors, <<FileName, line, message>>)

\* C18: after add_rule_to_context(n) for a name n the theory defines before
\* the ProofState's position, the context maps n to a Rule object that is no
\* rule of the theory, of a goal or of another name of the context and equals
\* the theory's rule n, whatever the context or the goals' assumptions held
\* under n; the context's other entries, the goals, the theory and the
\* diagnostics are as before.  After add_rule_to_context(n) for another n the
\* context, the goals and every Rule object are as before, and the one change
\* is the diagnostic: n not defined, or n used before it is defined.
C18_AddsGlobalRuleOnly ==
    [][AddStep
          => /\ goals' = goals
             /\ GoalValues(rule_store', goals') = GoalValues(rule_store, goals)
             /\ UNCHANGED <<state_rules, state_rule_sequence, line, sequence>>
             /\ \A n \in DOMAIN state_rules :
                   rule_store'[state_rules[n]] = rule_store[state_rules[n]]
             /\ \/ \E n \in DOMAIN state_rules :
                      /\ state_rule_sequence[n] < sequence
                      /\ DOMAIN context' = DOMAIN context \cup {n}
                      /\ context'[n] \notin Range(state_rules)
                            \cup UNION {Range(goals[i].assumptions) : i \in DOMAIN goals}
                            \cup {goals[i].formula : i \in DOMAIN goals}
                            \cup {context[k] : k \in DOMAIN context \ {n}}
                      /\ rule_store'[context'[n]] = rule_store[state_rules[n]]
                      /\ \A k \in DOMAIN context \ {n} :
                            /\ context'[k] = context[k]
                            /\ rule_store'[context'[k]] = rule_store[context[k]]
                      /\ UNCHANGED <<errors, state_errors>>
                \/ /\ context' = context
                   /\ rule_store' = rule_store
                   /\ \E n \in ContextNames :
                         \/ /\ n \notin DOMAIN state_rule_sequence
                            /\ Reports(MsgNotDefined(n))
                         \/ /\ n \in DOMAIN state_rule_sequence
                            /\ state_rule_sequence[n] >= sequence
                            /\ Reports(MsgBeforeDefined(n, state_rule_sequence[n], sequence))]_vars

\* A rewrite of the context's rule relabel has yielded, so that rule was
\* assigned to, and the context holds the theory's relabel again; and fuse,
\* which the goal assumes and the theory defines too late, is not in the
\* context though it was asked for.
C18_Witness ==
    /\ gen.pc = "suspended"
    /\ gen.target = "relabel"
    /\ "relabel" \in DOMAIN context
    /\ rule_store[context["relabel"]] = Theory["relabel"].rule
    /\ goals # <<>>
    /\ "fuse" \in DOMAIN goals[1].assumptions
    /\ "fuse" \notin DOMAIN context
    /\ MsgBeforeDefined("fuse", state_rule_sequence["fuse"], sequence) \in errors

\* ------------------------------------------------ properties of snapshots
\* The Rule objects of the goals gs.
GoalRefs(gs) ==
    {gs[i].formula : i \in DOMAIN gs} \cup UNION {Range(gs[i].assumptions) : i \in DOMAIN gs}

\* The step is a call of snapshot.
SnapshotStep == other = NoOther /\ other' # NoOther

\* C19: the ProofState that snapshot(part) returns has goals equal to the
\* goals of the ProofState it is taken of, as many, with equal formulas and
\* equal assumptions, and has part's line; it shares no Rule object with that
\* ProofState; and no operation on one of the two, rewrite, replace_lhs or
\* try_close_goal, changes a goal of the other, whichever of the two is
\* operated on.
C19_SnapshotIndependent ==
    [][/\ SnapshotStep
          => /\ GoalValues(rule_store', other'.goals) = GoalValues(rule_store, goals)
             /\ other'.line = call'.line
             /\ GoalRefs(other'.goals) \cap (GoalRefs(goals) \cup Range(context)
                                             \cup Range(state_rules)) = {}
             /\ goals' = goals
             /\ GoalValues(rule_store', goals') = GoalValues(rule_store, goals)
       /\ (other # NoOther /\ other'.pc = other.pc)
          => /\ other' = other
             /\ GoalValues(rule_store', other'.goals) = GoalValues(rule_store, other.goals)]_vars

\* The snapshot still holds the goal the proof began with
\* while the live ProofState's copy of that goal has been assigned to.
SnapshotOutlivesChange ==
    /\ other.pc = "snapshot"
    /\ Len(other.goals) = 1
    /\ rule_store[other.goals[1].formula] = GoalFormula
    /\ Len(goals) = 2
    /\ goals[2].formula = 5
    /\ rule_store[5] # GoalFormula

\* A snapshot of the one goal was taken, then replace_lhs and a rewrite of the
\* lhs changed the live goals.
C19_Witness ==
    /\ SnapshotOutlivesChange
    /\ gen.pc = "suspended"
    /\ rule_store[goals[1].formula].lhs # GoalFormula.lhs

\* ---------------------------------------------- properties of diagnostics
\* The messages of the entries of State.errors that carry the line ln.  The
\* live ProofState has line -1 and its snapshot a marker's line, so these are
\* the entries the ProofState of line ln appended.
AppendedBy(ln) ==
    {state_errors[k][3] : k \in {j \in DOMAIN state_errors : state_errors[j][2] = ln}}

NoEntryTwice ==
    \A j, k \in DOMAIN state_errors : state_errors[j] = state_errors[k] => j = k

\* Each ProofState's set of messages is exactly what it appended.
MessagesMatchLog ==
    /\ AppendedBy(line) = errors
    /\ other # NoOther => AppendedBy(other.line) = other.errors

\* C20: a step leaves State.errors as it is, or appends one entry, which is
\* (the file name, the line of the ProofState operated on, a message that this
\* ProofState had not reported), the message then among its messages; no
\* ProofState's entry occurs twice in State.errors, however often the failing
\* call is repeated; and what a ProofState has appended is exactly its set of
\* messages, whatever the other ProofState appended.
C20_OncePerProofState ==
    [][/\ \/ state_errors' = state_errors
          \/ \E m \in errors' \ errors :
                /\ state_errors' = Append(state_errors, <<FileName, line, m>>)
                /\ errors' = errors \cup {m}
                /\ line' = line
       /\ NoEntryTwice'
       /\ MessagesMatchLog']_vars

\* Both ProofStates have reported the same three messages: State.errors has
\* six entries, each text twice, under two lines.
C20_Witness ==
    /\ Len(state_errors) = 6
    /\ other # NoOther
    /\ errors = other.errors
    /\ Cardinality(errors) = 3
    /\ line # other.line


\* ------------------------------------------------------------------ C21
\* True when the sequence a is an initial part of the sequence b.
IsPrefix(a, b) == Len(a) <= Len(b) /\ a = SubSeq(b, 1, Len(a))

\* C21: the diagnostics log is append-only.  No operation of a ProofState, of
\* a copy of it or of a snapshot of it removes, reorders or rewrites an entry:
\* in every step the log before is an initial part of the log after.
C21_LogAppendOnly == [][IsPrefix(state_errors, state_errors')]_vars

\* A copy was taken of a ProofState that had reported something, and the copy
\* then reported a further message the original has not.
C21_Witness ==
    /\ other.pc = "original"
    /\ other.errors # {}
    /\ errors \ other.errors # {}
    /\ Len(state_errors) >= 2

\* ------------------------------------------------------------------ C22
\* The call of lookup_rule that lk records had the default goal index and a
\* name that the context, the assumptions of every goal and the theory lack.
UnknownNameLookedUp ==
    /\ lk.pc = "returned"
    /\ lk.goal_i = 0
    /\ lk.rule_expr \notin DOMAIN context
    /\ lk.rule_expr \notin DOMAIN state_rule_sequence
    /\ \A i \in DOMAIN goals : lk.rule_expr \notin DOMAIN goals[i].assumptions

\* C22: in every ProofState, one with no goals included, lookup_rule(name)
\* with the default goal index and a name that is nowhere defined ends without
\* an exception, returns None and has 'Rule <name> not defined.' in the log.
C22_AsClaimed ==
    UnknownNameLookedUp =>
        /\ lk.status = "None"
        /\ lk.ret = None
        /\ MsgNotDefined(lk.rule_expr) \in LoggedMessages

\* ------------------------------------------------------------------ C23
\* C23: the theory is read-only for a ProofState.  No step (lookup_rule,
\* add_rule_to_context, a rewrite of a goal or of a rule of the context,
\* replace_lhs/rhs, try_close_goal, copy, snapshot) changes which rules the
\* theory has, the position of any of them, or either graph of any of them.
C23_TheoryReadOnly ==
    [][/\ state_rules' = state_rules
       /\ state_rule_sequence' = state_rule_sequence
       /\ \A n \in DOMAIN state_rules :
             /\ state_rules[n] \in DOMAIN rule_store'
             /\ rule_store'[state_rules[n]] = rule_store[state_rules[n]]]_vars

\* A rule of the theory was added to the context and rewritten there: the
\* context's rule no longer has the graphs of the theory's rule of that name.
C23_Witness ==
    \E n \in DOMAIN context \cap DOMAIN state_rules :
        /\ context[n] # state_rules[n]
        /\ rule_store[context[n]] # rule_store[state_rules[n]]
        /\ rule_store[state_rules[n]] = Theory[n].rule

\* ------------------------------------------------------------------ C24
\* The step is a call of rewrite_lhs1 or rewrite_rhs1.
FirstStep == gen = NoGen /\ gen' # NoGen /\ call'.op \in {"rewrite_lhs1", "rewrite_rhs1"}

\* What the call of FirstStep meets: the rule its name resolves to, the target,
\* the target's side and the occurrences the finder has for it.
FirstLookup == lookup_rule(gen'.rule_expr, 0, "None")

FirstTarget == target_rule(gen'.target)

FirstGraph == SideOf(rule_store[FirstTarget], gen'.side)

FirstOccurrences == Matches(rule_store[FirstLookup.rule].lhs, FirstGraph)

FirstResolved == FirstLookup.status = "rule" /\ FirstTarget # None

\* The ProofState apart from the generator, the log and the record of the call
\* is as it was.
FirstLeftAlone == rule_store' = rule_store /\ goals' = goals /\ context' = context

\* C24 as claimed: with the rule resolved and the target there, the call
\* returns True exactly when the finder has an occurrence of the rule's lhs in
\* the target's side, and False exactly when it has none.
C24_AsClaimed ==
    [][(FirstStep /\ FirstResolved) =>
          /\ call'.ret = "True"  <=> FirstOccurrences # {}
          /\ call'.ret = "False" <=> FirstOccurrences = {}]_vars

\* C24: rewrite_lhs1 (rewrite_rhs1) makes one pull.  It returns True exactly
\* when the rule resolves, the target is there, the finder has an occurrence
\* and dpo succeeds on the occurrence taken first; the target's side is then
\* the graph it held rewritten once, at that occurrence, and nothing else of the
\* ProofState has changed.  It returns False exactly when the rule does not
\* resolve or the finder has no occurrence, and then no graph has changed.
\* Otherwise the call raises: the exception of lookup_rule or of the missing
\* target, or the exception dpo raised on the occurrence taken first, and then
\* too no graph has changed.
C24_FirstElementOnly ==
    [][FirstStep =>
          /\ call'.ret = "True" <=>
                /\ gen'.pc = "suspended"
                /\ FirstResolved
                /\ gen'.m_g \in FirstOccurrences
                /\ Rewrite(rule_store[FirstLookup.rule], gen'.m_g, FirstGraph).status = "ok"
          /\ (/\ FirstResolved
              /\ FirstOccurrences # {}
              /\ \A m \in FirstOccurrences :
                    Rewrite(rule_store[FirstLookup.rule], m, FirstGraph).status = "ok")
                => call'.ret = "True"
          /\ call'.ret = "True" =>
                /\ gen'.count = 1
                /\ rule_store' = set_side(rule_store, FirstTarget, gen'.side,
                                          Outcome(Rewrite(rule_store[FirstLookup.rule],
                                                          gen'.m_g, FirstGraph), gen'.m_g).H)
                /\ goals' = goals /\ context' = context
          /\ call'.ret = "False" <=>
                \/ FirstLookup.status = "None"
                \/ FirstResolved /\ FirstOccurrences = {}
          /\ call'.ret = "False" => FirstLeftAlone
          /\ call'.ret \notin {"True", "False"} =>
                /\ FirstLeftAlone
                /\ \/ call'.ret = "IndexError" /\ FirstLookup.status = "IndexError"
                   \/ call'.ret = "AttributeError" /\ FirstLookup.status = "rule"
                         /\ FirstTarget = None
                   \/ /\ FirstResolved
                      /\ \E m \in FirstOccurrences :
                            call'.ret = Rewrite(rule_store[FirstLookup.rule], m,
                                                FirstGraph).status]_vars

\* rewrite_rhs1 answered True on a target that had more than one occurrence:
\* one rewrite was committed, and a second call finds the rewritten graph.
C24_Witness ==
    /\ call.op = "rewrite_rhs1"
    /\ call.ret = "True"
    /\ gen.pc = "suspended"
    /\ gen.remaining # {}
    /\ goals # <<>>
    /\ rule_store[goals[1].formula].rhs # GoalFormula.rhs

\* ------------------------------------------------------------------ C25
\* The call of dpo that run records made the pair of images a and b the
\* arguments of a merge.
Merged(a, b) == \E k \in DOMAIN run.out.merges : run.out.merges[k] = <<a, b>>

Applied == run.pc = "applied" /\ run.out.status = "ok"

ImageEdges == Range(run.match.edge_map)

ImageVertices == Range(run.match.vertex_map)

InteriorImages ==
    {run.match.vertex_map[v] : v \in {x \in vertices(run.rule.lhs) :
                                          ~ is_boundary(run.rule.lhs, x)}}

\* The images of the lhs boundary vertices that dpo split.
SplitImages == {run.match.vertex_map[v] : v \in DOMAIN run.out.in_map}

\* The vertices that a merge made away with.
MergedAway == {run.out.merges[k][2] : k \in DOMAIN run.out.merges}

\* The sequences a and b of wire-ends agree wherever a does not name the image
\* of an lhs vertex.
SameOutsideImage(a, b) ==
    /\ Len(a) = Len(b)
    /\ \A j \in DOMAIN a : a[j] \notin ImageVertices => b[j] = a[j]

EdgeCountAdds ==
    num_edges(run.out.H) = num_edges(run.G) - num_edges(run.rule.lhs) + num_edges(run.rule.rhs)

\* C26 as claimed: every edge of G outside the occurrence is in G' under its
\* identity with the attributes and the source and target sequences it had,
\* every vertex of G outside the occurrence is in G', what is removed is
\* exactly the images of the lhs edges and of the interior lhs vertices, and
\* the edges number |edges(G)| - |edges(lhs)| + |edges(rhs)|.
C26_AsClaimed ==
    Applied =>
        /\ \A e \in edges(run.G) \ ImageEdges :
              e \in edges(run.out.H) /\ run.out.H.edata[e] = run.G.edata[e]
        /\ vertices(run.G) \ ImageVertices \subseteq vertices(run.out.H)
        /\ edges(run.G) \ edges(run.out.H) = ImageEdges
        /\ vertices(run.G) \ vertices(run.out.H) = InteriorImages
        /\ EdgeCountAdds

\* C26: after a successful dpo at an injective occurrence, every edge of G
\* outside the occurrence is in G' under its identity with its label and with
\* the ends it had wherever they are not images of lhs vertices; every vertex
\* of G outside the occurrence is in G'; the edges removed are exactly the
\* images of the lhs edges; the vertices removed are the images of the
\* interior lhs vertices, the images of the boundary vertices that were split
\* and the vertices merged away, and no others; the edges number
\* |edges(G)| - |edges(lhs)| + |edges(rhs)|.  When nothing was split or merged
\* the ends of the outside edges are unchanged and the vertices removed are
\* the interior images alone.
C26_OnlyMatchedPartChanges ==
    Applied =>
        /\ \A e \in edges(run.G) \ ImageEdges :
              /\ e \in edges(run.out.H)
              /\ run.out.H.edata[e].value = run.G.edata[e].value
              /\ SameOutsideImage(run.G.edata[e].s, run.out.H.edata[e].s)
              /\ SameOutsideImage(run.G.edata[e].t, run.out.H.edata[e].t)
        /\ vertices(run.G) \ ImageVertices \subseteq vertices(run.out.H)
        /\ edges(run.G) \ edges(run.out.H) = ImageEdges
        /\ InteriorImages \cup SplitImages \subseteq vertices(run.G) \ vertices(run.out.H)
        /\ vertices(run.G) \ vertices(run.out.H)
              \subseteq InteriorImages \cup SplitImages \cup MergedAway
        /\ EdgeCountAdds
        /\ (SplitImages = {} /\ MergedAway = {}) =>
              /\ \A e \in edges(run.G) \ ImageEdges : run.out.H.edata[e] = run.G.edata[e]
              /\ vertices(run.G) \ vertices(run.out.H) = InteriorImages

\* dpo split the image of a boundary vertex at which an edge outside the
\* occurrence ends: that edge is in G' with another end.
C26_Witness ==
    /\ Applied
    /\ SplitImages # {}
    /\ \E e \in edges(run.G) \ ImageEdges :
          /\ e \in edges(run.out.H)
          /\ run.out.H.edata[e] # run.G.edata[e]

\* ------------------------------------------------------------------ C27
\* C27: global_rules() and lookup_rule agree.  A name that global_rules()
\* lists is resolved by lookup_rule(name, local=False), which then records no
\* diagnostic, and a name that lookup_rule(name, local=False) resolves is
\* listed, the rule whose position is the ProofState's own included.
C27_AsClaimed ==
    (call.op = "global_rules" /\ lk.pc = "returned" /\ lk.local = "False") =>
        /\ lk.rule_expr \in call.ret <=> lk.status = "rule"
        /\ lk.rule_expr \in call.ret =>
              MsgBeforeDefined(lk.rule_expr, state_rule_sequence[lk.rule_expr], sequence)
                  \notin LoggedMessages

\* ------------------------------------------------------------------ C28
\* The step asks for a rewrite sequence; the step makes the first pull of one.
RequestStep == gen = NoGen /\ gen' # NoGen /\ gen'.pc = "created"

FirstPullStep == gen.pc = "created" /\ gen' # gen /\ gen' # NoGen

\* C28: asking for a rewrite sequence has no effect: the step that calls
\* rewrite_lhs or rewrite_rhs looks nothing up, records no diagnostic and
\* changes no graph, goal or context entry.  The rule name and the target are
\* resolved in the ProofState as it is at the first pull: the diagnostic of
\* the lookup is recorded then, the target is the goal or context rule that
\* the name stands for then, and the occurrence yielded is one in the graph
\* that the target's side holds then.
C28_RequestHasNoEffect ==
    [][/\ RequestStep =>
             /\ gen'.count = 0
             /\ UNCHANGED <<rule_store, state_rules, state_rule_sequence, state_errors,
                            goals, context, errors, line, sequence, lk>>
       /\ FirstPullStep =>
             /\ state_errors' = Reported(lookup_rule(gen.rule_expr, 0, "None")).state_errors
             /\ errors' = Reported(lookup_rule(gen.rule_expr, 0, "None")).errors
             /\ lookup_rule(gen.rule_expr, 0, "None").status = "None" => gen'.pc = "done"
             /\ lookup_rule(gen.rule_expr, 0, "None").status = "IndexError"
                   => gen'.pc = "raised" /\ gen'.exc = "IndexError"
             /\ (lookup_rule(gen.rule_expr, 0, "None").status = "rule"
                    /\ target_rule(gen.target) = None)
                   => gen'.pc = "raised" /\ gen'.exc = "AttributeError"
             /\ gen'.pc = "suspended" =>
                   /\ lookup_rule(gen.rule_expr, 0, "None").status = "rule"
                   /\ target_rule(gen.target) # None
                   /\ gen'.m_g \in Matches(
                          rule_store[lookup_rule(gen.rule_expr, 0, "None").rule].lhs,
                          SideOf(rule_store[target_rule(gen.target)], gen.side))]_vars

\* A sequence was asked for with a rule name that is nowhere defined and a
\* target that the context does not have, and has not been pulled: nothing is
\* in the log.
C28_Witness ==
    /\ gen.pc = "created"
    /\ gen.rule_expr = "undefined_rule"
    /\ gen.target = "relabel"
    /\ "relabel" \notin DOMAIN context
    /\ state_errors = <<>>

\* ------------------------------------------------------------------ C29
\* The step is a pull of a rewrite sequence.
PullStep == gen.pc \in {"created", "suspended"} /\ gen' # gen /\ gen' # NoGen

OtherSide(side) == IF side = "lhs" THEN "rhs" ELSE "lhs"

\* C29: a rewrite changes only its target side.  With target '' a pull of
\* rewrite_lhs changes at most the lhs of the top goal's formula: its rhs, its
\* assumptions, the goals below, the depth of the stack and the context with
\* its rules are as before.  With a rule of the context as target it changes
\* at most the lhs of that rule: the goal stack and the other rules of the
\* context are as before.  The same for rewrite_rhs and the rhs.
C29_OnlyTargetSideChanges ==
    [][PullStep =>
          /\ goals' = goals
          /\ context' = context
          /\ DOMAIN rule_store' = DOMAIN rule_store
          /\ \A ref \in DOMAIN rule_store :
                /\ ref # target_rule(gen.target) => rule_store'[ref] = rule_store[ref]
                /\ SideOf(rule_store'[ref], OtherSide(gen.side))
                      = SideOf(rule_store[ref], OtherSide(gen.side))
          /\ gen.target = "" =>
                \A n \in DOMAIN context : rule_store'[context[n]] = rule_store[context[n]]
          /\ gen.target # "" =>
                \A i \in DOMAIN goals :
                    /\ rule_store'[goals[i].formula] = rule_store[goals[i].formula]
                    /\ \A n \in DOMAIN goals[i].assumptions :
                          rule_store'[goals[i].assumptions[n]]
                              = rule_store[goals[i].assumptions[n]]]_vars

\* The lhs of the top goal was rewritten and then the rhs of the context's
\* rule relabel: the goal's rhs and the rule's lhs are what they were.
C29_Witness ==
    /\ gen.pc = "suspended"
    /\ gen.target = "relabel"
    /\ gen.side = "rhs"
    /\ "relabel" \in DOMAIN context
    /\ rule_store[context["relabel"]].rhs # RuleTable.relabel.rhs
    /\ rule_store[context["relabel"]].lhs = RuleTable.relabel.lhs
    /\ goals # <<>>
    /\ rule_store[goals[1].formula].lhs # GoalFormula.lhs
    /\ rule_store[goals[1].formula].rhs = GoalFormula.rhs

\* ------------------------------------------------------------------ C30
\* The index is one of a goal of the stack gs.
InStack(i, gs) == i >= 0 /\ i < Len(gs)

\* C30: validate_goal(i) never changes the ProofState, whatever i is, and
\* finds an occurrence exactly when i is the index of a goal whose sides are
\* isomorphic.  With an index outside 0 .. depth-1 (negative, too large, or
\* any index on an empty stack) validate_goal returns None and try_close_goal
\* returns False; neither raises, records a diagnostic or changes the stack.
C30_IndexOutsideStack ==
    [][/\ call'.op = "validate_goal" =>
             /\ UNCHANGED <<rule_store, state_rules, state_rule_sequence, state_errors,
                            goals, context, errors, line, sequence, other>>
             /\ ~ InStack(call'.i, goals) => call'.ret = "None"
             /\ call'.ret = "Match" <=>
                   /\ InStack(call'.i, goals)
                   /\ isomorphic(rule_store[goals[call'.i + 1].formula].lhs,
                                 rule_store[goals[call'.i + 1].formula].rhs)
       /\ (call'.op = "try_close_goal" /\ ~ InStack(call'.i, goals)) =>
             /\ call'.ret = FALSE
             /\ UNCHANGED <<rule_store, state_errors, goals, context, errors>>]_vars

\* try_close_goal(-1) answered False on a stack whose last goal has isomorphic
\* sides, and the goal is still there.
C30_Witness ==
    /\ call.op = "try_close_goal"
    /\ call.i = -1
    /\ call.ret = FALSE
    /\ goals # <<>>
    /\ isomorphic(rule_store[goals[Len(goals)].formula].lhs,
                  rule_store[goals[Len(goals)].formula].rhs)

\* ------------------------------------------------------------------ C31
\* The step is a call of replace_lhs or replace_rhs that pushed a goal.
PushStep == Len(goals') = Len(goals) + 1

\* The Rule objects that the assumptions of the goals of gs are.
AssumptionRefsOf(gs) == UNION {Range(gs[i].assumptions) : i \in DOMAIN gs}

\* No Rule object is an assumption of two goals or two assumptions of one,
\* and none is also a goal's formula, a rule of the context or of the theory.
AssumptionsApart ==
    /\ \A i, j \in DOMAIN goals :
          \A n \in DOMAIN goals[i].assumptions, k \in DOMAIN goals[j].assumptions :
              goals[i].assumptions[n] = goals[j].assumptions[k] => i = j /\ n = k
    /\ AssumptionRefsOf(goals)
          \cap (Range(state_rules) \cup Range(context)
                  \cup {goals[i].formula : i \in DOMAIN goals}) = {}

\* The step is an assignment to a side of an assumption of a goal.
AssignStep == call'.op = "assign" /\ lk' = lk /\ goals' = goals

\* C31: the goal that replace_lhs / replace_rhs pushes has the assumption
\* names of the goal it was split from, each a Rule object of its own with
\* the graphs the former top goal's assumption has; the former top goal lies
\* below it with its assumptions as they were.  Right after the call
\* lookup_rule with scope local, goal index 0, resolves the names it resolved
\* before the call, to rules with the same graphs.  Assigning to an assumption
\* of one goal changes that Rule object and no assumption of another goal.
C31_SubGoalOwnsItsAssumptions ==
    [][/\ AssumptionsApart'
       /\ PushStep =>
             /\ goals'[2].assumptions = goals[1].assumptions
             /\ DOMAIN goals'[1].assumptions = DOMAIN goals[1].assumptions
             /\ \A n \in DOMAIN goals[1].assumptions :
                   /\ goals'[1].assumptions[n] \notin DOMAIN rule_store
                   /\ rule_store'[goals'[1].assumptions[n]]
                         = rule_store[goals[1].assumptions[n]]
                   /\ rule_store'[goals'[2].assumptions[n]]
                         = rule_store[goals[1].assumptions[n]]
             /\ \A n \in CallerNames :
                   /\ lookup_rule(n, 0, "True")'.status = lookup_rule(n, 0, "True").status
                   /\ lookup_rule(n, 0, "True").status = "rule" =>
                         rule_store'[lookup_rule(n, 0, "True")'.rule]
                             = rule_store[lookup_rule(n, 0, "True").rule]
       /\ AssignStep =>
             \A ref \in DOMAIN rule_store :
                 ref # goals[call'.i + 1].assumptions[call'.name]
                     => rule_store'[ref] = rule_store[ref]]_vars

\* An assumption of the pushed goal was assigned to and looked up there: it
\* is no longer what the goal below has under that name.
C31_Witness ==
    /\ Len(goals) = 2
    /\ lk.pc = "returned"
    /\ lk.status = "rule"
    /\ lk.goal_i = 0
    /\ lk.rule_expr \in DOMAIN goals[1].assumptions
    /\ rule_store[goals[1].assumptions[lk.rule_expr]].lhs = Wire
    /\ rule_store[goals[2].assumptions[lk.rule_expr]] = GoalAssumptions[lk.rule_expr]
    /\ rule_store[lk.ret] = rule_store[goals[1].assumptions[lk.rule_expr]]

\* ------------------------------------------------------------------ C32
\* The step changes the text.
ChangeStep == editor'.text = editor.text + 1

\* The step is timer number j firing.
FireStep(j) ==
    /\ j \in DOMAIN editor.timers
    /\ editor.timers[j].pc = "pending"
    /\ editor'.timers[j].pc # "pending"

\* Timer number j ran update_state.
Ran(j) == editor.timers[j].pc = "update_state"

\* The timers set by the changes number i to j have all fired after change
\* number j and before a further change.
BurstFired(i, j) ==
    \A k \in i .. j : editor.timers[k].pc # "pending" /\ editor.timers[k].at = j

\* One timer per change, carrying the revision of its change; a timer ran
\* update_state exactly if the revision was still the one it carries when it
\* fired; of a burst that has fired, the last timer ran it and no other.
Debounced ==
    /\ editor.revision = editor.text
    /\ Len(editor.timers) = editor.revision
    /\ \A j \in DOMAIN editor.timers :
          /\ editor.timers[j].r = j
          /\ Ran(j) => editor.timers[j].at = editor.timers[j].r
          /\ editor.timers[j].pc = "returned" => editor.timers[j].at > editor.timers[j].r
    /\ \A i, j \in DOMAIN editor.timers :
          i <= j /\ BurstFired(i, j) => \A k \in i .. j : Ran(k) <=> k = j

\* C32: every text change increments the revision and sets one timer that
\* carries the revision as incremented; a timer that fires runs update_state
\* exactly if the text has not changed since it was set, and update_state
\* then reads the current text; so of the timers of a burst of changes that
\* fire, in any order, after the burst, the one set by the last change runs
\* update_state and no other does.
C32_Debounced ==
    [][/\ Debounced'
       /\ ChangeStep =>
             /\ editor'.revision = editor.revision + 1
             /\ Len(editor'.timers) = Len(editor.timers) + 1
             /\ editor'.timers[Len(editor'.timers)]
                   = [r |-> editor'.revision, pc |-> "pending", at |-> None]
             /\ \A j \in DOMAIN editor.timers : editor'.timers[j] = editor.timers[j]
       /\ \A j \in 1 .. MaxChanges :
             FireStep(j) =>
                 /\ Ran(j)' <=> editor.timers[j].r = editor.revision
                 /\ Ran(j)' => editor'.code = editor.text
                 /\ ~ Ran(j)' => editor'.code = editor.code
                 /\ editor'.revision = editor.revision
                 /\ \A k \in DOMAIN editor.timers : k # j => editor'.timers[k] = editor.timers[k]]_vars

\* A burst of three changes has fired, the timer of the first change last:
\* the timer of the third change ran update_state on the text as changed, the
\* other two returned.
C32_Witness ==
    /\ Len(editor.timers) >= 3
    /\ BurstFired(1, 3)
    /\ Ran(3)
    /\ editor.timers[1].pc = "returned"
    /\ editor.timers[2].pc = "returned"
    /\ editor.code = 3
    /\ editor.revision = 3
====
